---- MODULE Spec2Model ----
(***************************************************************************)
(* The inline reveal ("Typora style") state machine of the Mink editor:    *)
(* src/unnamed/part_000, lines 276-900 (renderer).                         *)
(*                                                                         *)
(* The document is one paragraph.  A ProseMirror position p in             *)
(* 1..Len(doc)+1 is the gap before character p; character k occupies       *)
(* [k, k+1).  doc.content.size is Len(doc)+2 (the paragraph's two tokens). *)
(* Every character carries its own Bold and Italic flag (ProseMirror       *)
(* merges equal neighbours, so the per-character form is canonical).       *)
(*                                                                         *)
(* The handlers run on one thread: every action below is one user event    *)
(* handled to completion, nested dispatches and notifications included.    *)
(***************************************************************************)
EXTENDS Integers, Sequences, FiniteSets, TLC

VARIABLES
    doc,                \* editor.state.doc: Seq of [c, b, i]
    selFrom,            \* editor.state.selection.from
    selTo,              \* editor.state.selection.to
    activeInlineReveal, \* _activeInlineReveal (NoReveal = null)
    syncingInlineReveal,        \* _syncingInlineReveal
    inlineRevealJustExpanded,   \* _inlineRevealJustExpanded
    inlineRevealLastKeyEvent,   \* _inlineRevealLastKeyEvent, as the code reads it
    inlineRevealSuppressNextSelectionExpand,
    isSourceMode,
    wysiwygComposing,   \* _wysiwygComposing
    sourceValue,        \* value of the source textarea: Seq of characters
    sourceSelStart,     \* its selectionStart (offsets count from 0)
    sourceSelEnd,       \* its selectionEnd
    searchInput,        \* value of the search input: Seq of characters
    searchMarks,        \* searchMarks: Seq of [from, to]
    searchIndex,        \* searchIndex
    edits,              \* length of the loaded document + editing key presses
    hist,               \* history of the run, for the scenario properties
    mainProcess,        \* currentFilePath, isModified, isWelcomeDoc of src/src/index.js
    files,              \* the content of the files on disk, by path
    aiChat              \* the AI chat panel and the listeners of its streams

vars == <<doc, selFrom, selTo, activeInlineReveal, syncingInlineReveal,
          inlineRevealJustExpanded, inlineRevealLastKeyEvent,
          inlineRevealSuppressNextSelectionExpand, isSourceMode, wysiwygComposing,
          sourceValue, sourceSelStart, sourceSelEnd, searchInput, searchMarks,
          searchIndex, edits, hist, mainProcess, files, aiChat>>

(* ------------------------------ bounds -------------------------------- *)
\* Budget of a run of Spec: the length of the loaded document plus the number
\* of editing key presses.
MaxSize == 3

(* --------------------------- small helpers ---------------------------- *)
Min(a, b) == IF a < b THEN a ELSE b
Max(a, b) == IF a > b THEN a ELSE b

Star == "*"
Underscore == "_"
Letter == "a"
MarkerChars == {Star, Underscore}

Ch(c, b, i) == [c |-> c, b |-> b, i |-> i]
Plain(text) == [k \in 1..Len(text) |-> Ch(text[k], FALSE, FALSE)]
TextOf(d) == [k \in 1..Len(d) |-> d[k].c]
Rep(c, n) == [k \in 1..n |-> c]

\* doc.content.size for a one-paragraph document
ContentSize(d) == Len(d) + 2

\* doc.textBetween(from, to, '\n', '\n') within the paragraph
TextBetween(d, from, to) ==
    LET lo == Max(from, 1)
        hi == Min(to - 1, Len(d))
    IN IF hi < lo THEN <<>> ELSE [k \in 1..(hi - lo + 1) |-> d[lo + k - 1].c]

HasMark(d, k, m) ==
    /\ k \in DOMAIN d
    /\ IF m = "bold" THEN d[k].b ELSE d[k].i

OtherMark(m) == IF m = "bold" THEN "italic" ELSE "bold"

(* ------------------- ProseMirror transform primitives ------------------ *)
\* ResolvedPos.marks(): Bold and Italic are declared inclusive: false
\* (lines 768, 790), so a mark is kept at a gap only if both neighbours have it.
MarksAt(d, pos, m) == HasMark(d, pos - 1, m) /\ HasMark(d, pos, m)

\* tr.insertText(text, pos): the text takes the marks at pos, or none when
\* stored marks were set to [] just before (stored = TRUE).
InsertText(d, text, pos, stored) ==
    LET b == ~stored /\ MarksAt(d, pos, "bold")
        i == ~stored /\ MarksAt(d, pos, "italic")
        new == [k \in 1..Len(text) |-> Ch(text[k], b, i)]
    IN SubSeq(d, 1, pos - 1) \o new \o SubSeq(d, pos, Len(d))

\* tr.delete(from, to)
DeleteRange(d, from, to) ==
    IF to <= from THEN d ELSE SubSeq(d, 1, from - 1) \o SubSeq(d, to, Len(d))

\* tr.insertText(text, from, to) over a non-empty range: $from.marksAcross($to)
ReplaceText(d, text, from, to) ==
    IF from = to THEN InsertText(d, text, from, FALSE)
    ELSE LET b == HasMark(d, from, "bold") /\ HasMark(d, to, "bold")
             i == HasMark(d, from, "italic") /\ HasMark(d, to, "italic")
             new == [k \in 1..Len(text) |-> Ch(text[k], b, i)]
         IN SubSeq(d, 1, from - 1) \o new \o SubSeq(d, to, Len(d))

\* tr.removeMark(from, to, type)
RemoveMark(d, from, to, m) ==
    [k \in 1..Len(d) |->
        IF k >= from /\ k < to
        THEN (IF m = "bold" THEN [d[k] EXCEPT !.b = FALSE] ELSE [d[k] EXCEPT !.i = FALSE])
        ELSE d[k]]

\* tr.addMark(from, to, type.create())
AddMark(d, from, to, m) ==
    [k \in 1..Len(d) |->
        IF k >= from /\ k < to
        THEN (IF m = "bold" THEN [d[k] EXCEPT !.b = TRUE] ELSE [d[k] EXCEPT !.i = TRUE])
        ELSE d[k]]

\* StepMap.map for one replaced range [start, start+oldSize) -> newSize
MapOne(pos, assoc, m) ==
    IF m.start > pos THEN pos
    ELSE IF pos <= m.start + m.oldSize
         THEN LET side == IF m.oldSize = 0 THEN assoc
                          ELSE IF pos = m.start THEN -1
                          ELSE IF pos = m.start + m.oldSize THEN 1
                          ELSE assoc
              IN m.start + (IF side < 0 THEN 0 ELSE m.newSize)
         ELSE pos + m.newSize - m.oldSize

\* tr.mapping.map(pos, assoc) through the transaction's steps in order
RECURSIVE MapPos(_, _, _)
MapPos(pos, assoc, maps) ==
    IF maps = <<>> THEN pos
    ELSE MapPos(MapOne(pos, assoc, Head(maps)), assoc, Tail(maps))

StepMap(start, oldSize, newSize) == [start |-> start, oldSize |-> oldSize, newSize |-> newSize]

\* a transaction as the listeners see it; NoTr is "no transaction argument"
NoTr == [present |-> FALSE, meta |-> FALSE, docChanged |-> FALSE, maps |-> <<>>]
Tr(meta, docChanged, maps) ==
    [present |-> TRUE, meta |-> meta, docChanged |-> docChanged, maps |-> maps]

(* ---------------------- Annotation Range Resolver ---------------------- *)
NoRange == [from |-> 0, to |-> 0]

RECURSIVE RunStart(_, _, _)
RunStart(d, k, m) == IF HasMark(d, k - 1, m) THEN RunStart(d, k - 1, m) ELSE k
RECURSIVE RunEnd(_, _, _)
RunEnd(d, k, m) == IF HasMark(d, k + 1, m) THEN RunEnd(d, k + 1, m) ELSE k

\* the run of marked characters around character k (k = 0: no such character)
RunAround(d, k, m) ==
    IF k = 0 THEN NoRange ELSE [from |-> RunStart(d, k, m), to |-> RunEnd(d, k, m) + 1]

\* getMarkRange($pos, type): the run of marked characters around the
\* character after pos, else around the character before pos.
getMarkRange(d, pos, m) ==
    RunAround(d, IF HasMark(d, pos, m) THEN pos ELSE IF HasMark(d, pos - 1, m) THEN pos - 1 ELSE 0, m)

\* tryAt: direct || fromRight || fromLeft, then getMarkRange
tryAt(d, pos, m) ==
    IF HasMark(d, pos, m) \/ HasMark(d, pos - 1, m) THEN getMarkRange(d, pos, m) ELSE NoRange

\* "if (!range && selection.from > 1) range = tryAt(from - 1)" (lines 308-312)
backOffOne(s, m, range) ==
    IF range = NoRange /\ s.from > 1 THEN tryAt(s.doc, s.from - 1, m) ELSE range

\* withinMarkEdges without the test of lines 313-317
withinAnyRange(s, range) == range

\* the candidate must be within the mark's edges (lines 313-317)
withinMarkEdges(s, range) ==
    IF range = NoRange THEN NoRange
    ELSE IF s.from < range.from \/ s.from > range.to THEN NoRange
    ELSE range

findActiveMarkRange(s, m) ==
    IF s.from # s.to THEN NoRange
    ELSE withinMarkEdges(s, backOffOne(s, m, tryAt(s.doc, s.from, m)))

getRevealSyntax(m) ==
    IF m = "bold" THEN <<Star, Star>> ELSE IF m = "italic" THEN <<Star>> ELSE <<>>

NoCandidate == [found |-> FALSE, markName |-> "none", range |-> NoRange, syntax |-> <<>>]
Candidate(m, r) == [found |-> TRUE, markName |-> m, range |-> r, syntax |-> getRevealSyntax(m)]

\* "for (const markName of ['bold', 'italic'])": the first kind with a range
firstCandidate(rb, ri) ==
    IF rb # NoRange THEN Candidate("bold", rb)
    ELSE IF ri # NoRange THEN Candidate("italic", ri)
    ELSE NoCandidate

findRevealCandidate(s) ==
    firstCandidate(findActiveMarkRange(s, "bold"), findActiveMarkRange(s, "italic"))

\* "if (pos === range.to + 1)" (line 354)
justRightOf(pos, r) == IF r # NoRange /\ pos = r.to + 1 THEN r ELSE NoRange

RightOutsideRange(s, m) == justRightOf(s.from, tryAt(s.doc, s.from - 1, m))

findRevealCandidateRightOutside(s) ==
    IF s.from # s.to \/ s.from <= 1 THEN NoCandidate
    ELSE firstCandidate(RightOutsideRange(s, "bold"), RightOutsideRange(s, "italic"))

(* -------------------------- Reveal State ------------------------------ *)
NoReveal == [active |-> FALSE, markName |-> "none", syntax |-> <<>>, start |-> 0, end |-> 0,
             semantic |-> "undefined", leftLen |-> 0, rightLen |-> 0]

\* { markName, syntax, start, end } of the already-present-delimiter path:
\* semantic, leftLen and rightLen are not set (undefined).
RevealBare(m, syntax, start, end) ==
    [active |-> TRUE, markName |-> m, syntax |-> syntax, start |-> start, end |-> end,
     semantic |-> "undefined", leftLen |-> 0, rightLen |-> 0]

RevealFull(m, syntax, start, end) ==
    [active |-> TRUE, markName |-> m, syntax |-> syntax, start |-> start, end |-> end,
     semantic |-> m, leftLen |-> Len(syntax), rightLen |-> Len(syntax)]

(* --------------------- segment parsing (collapse) --------------------- *)
StartsWith(seg, pre) == Len(seg) >= Len(pre) /\ SubSeq(seg, 1, Len(pre)) = pre
EndsWith(seg, suf) == Len(seg) >= Len(suf) /\ SubSeq(seg, Len(seg) - Len(suf) + 1, Len(seg)) = suf

\* segment.match(/^M([\s\S]+)M$/) for a delimiter M
MatchWrapped(seg, delim) ==
    Len(seg) >= 2 * Len(delim) + 1 /\ StartsWith(seg, delim) /\ EndsWith(seg, delim)

\* segment.slice(l, -r)
SliceInner(seg, l, r) == SubSeq(seg, l + 1, Len(seg) - r)

NoParse == [type |-> "none", inner |-> <<>>]
Parsed(t, seg, l, r) == [type |-> t, inner |-> SliceInner(seg, l, r)]

ParseBoldPattern(seg) ==
    IF MatchWrapped(seg, <<Star, Star>>) \/ MatchWrapped(seg, <<Underscore, Underscore>>)
    THEN Parsed("bold", seg, 2, 2) ELSE NoParse

ParseItalicPattern(seg) ==
    IF MatchWrapped(seg, <<Star>>) \/ MatchWrapped(seg, <<Underscore>>)
    THEN Parsed("italic", seg, 1, 1) ELSE NoParse

ParseMixedPattern(seg) ==
    IF StartsWith(seg, <<Star, Star>>) /\ EndsWith(seg, <<Star>>) /\ Len(seg) >= 3
    THEN Parsed("italic", seg, 2, 1)
    ELSE IF StartsWith(seg, <<Star>>) /\ EndsWith(seg, <<Star, Star>>) /\ Len(seg) >= 3
    THEN Parsed("italic", seg, 1, 2)
    ELSE IF StartsWith(seg, <<Underscore, Underscore>>) /\ EndsWith(seg, <<Underscore>>) /\ Len(seg) >= 3
    THEN Parsed("italic", seg, 2, 1)
    ELSE IF StartsWith(seg, <<Underscore>>) /\ EndsWith(seg, <<Underscore, Underscore>>) /\ Len(seg) >= 3
    THEN Parsed("italic", seg, 1, 2)
    ELSE NoParse

\* the parse of collapseInlineReveal, by the kind the reveal was created with
ParseSegment(markName, seg) ==
    IF markName = "bold"
    THEN IF ParseBoldPattern(seg) # NoParse THEN ParseBoldPattern(seg)
         ELSE IF ParseItalicPattern(seg) # NoParse THEN ParseItalicPattern(seg)
         ELSE ParseMixedPattern(seg)
    ELSE IF markName = "italic"
    THEN IF ParseItalicPattern(seg) # NoParse THEN ParseItalicPattern(seg)
         ELSE ParseBoldPattern(seg)
    ELSE NoParse

\* the absorb loops: scan outwards over up to len marker characters
RECURSIVE AbsorbLeft(_, _, _, _)
AbsorbLeft(d, revealStart, markerChar, budget) ==
    IF budget > 0 /\ revealStart > 1 /\ TextBetween(d, revealStart - 1, revealStart) = <<markerChar>>
    THEN AbsorbLeft(d, revealStart - 1, markerChar, budget - 1)
    ELSE revealStart

RECURSIVE AbsorbRight(_, _, _, _)
AbsorbRight(d, revealEnd, markerChar, budget) ==
    IF budget > 0 /\ revealEnd < ContentSize(d) /\ TextBetween(d, revealEnd, revealEnd + 1) = <<markerChar>>
    THEN AbsorbRight(d, revealEnd + 1, markerChar, budget - 1)
    ELSE revealEnd

(* ------------- shape derivation (reconcileActiveBoldRevealMarks) ------- *)
NoShape == [target |-> "none", leftLen |-> 0, rightLen |-> 0]
Shape(t, l, r) == [target |-> t, leftLen |-> l, rightLen |-> r]

DeriveShape(seg) ==
    IF (StartsWith(seg, <<Star, Star>>) /\ EndsWith(seg, <<Star, Star>>) /\ Len(seg) >= 4)
       \/ (StartsWith(seg, <<Underscore, Underscore>>) /\ EndsWith(seg, <<Underscore, Underscore>>) /\ Len(seg) >= 4)
    THEN Shape("bold", 2, 2)
    ELSE IF (StartsWith(seg, <<Star>>) /\ EndsWith(seg, <<Star>>) /\ Len(seg) >= 2)
            \/ (StartsWith(seg, <<Underscore>>) /\ EndsWith(seg, <<Underscore>>) /\ Len(seg) >= 2)
    THEN Shape("italic", 1, 1)
    ELSE IF StartsWith(seg, <<Star, Star>>) /\ EndsWith(seg, <<Star>>) /\ Len(seg) >= 3
    THEN Shape("italic", 2, 1)
    ELSE IF StartsWith(seg, <<Star>>) /\ EndsWith(seg, <<Star, Star>>) /\ Len(seg) >= 3
    THEN Shape("italic", 1, 2)
    ELSE IF StartsWith(seg, <<Underscore, Underscore>>) /\ EndsWith(seg, <<Underscore>>) /\ Len(seg) >= 3
    THEN Shape("italic", 2, 1)
    ELSE IF StartsWith(seg, <<Underscore>>) /\ EndsWith(seg, <<Underscore, Underscore>>) /\ Len(seg) >= 3
    THEN Shape("italic", 1, 2)
    ELSE NoShape

(* ------------------------- Reveal State Machine ----------------------- *)
\* The machine state handed through the handlers:
\*   [doc, from, to, air, syncing, justExpanded, lastKey, suppress, isSourceMode]
\* and log, the transitions the handling of the current user event has
\* performed so far (it is not part of the program's state).
Logged(s, entry) == [s EXCEPT !.log = Append(s.log, entry)]

\* a variant of syncWhileSyncing that never clears _syncingInlineReveal
syncWhileSyncingStuck(s, tr) == s

\* syncInlineReveal while _syncingInlineReveal is set (lines 662-667)
syncWhileSyncing(s, tr) ==
    IF tr.present /\ tr.meta THEN [s EXCEPT !.syncing = FALSE] ELSE s

\* syncInlineReveal as it is entered from the notifications of a transaction
\* the machine dispatches itself (lines 660-669).  Past line 669 the function
\* would resolve, expand, collapse or reconcile inside its own dispatch; the
\* log records that as "reentered".
syncOwnTransaction(s, tr) ==
    IF s.syncing THEN syncWhileSyncing(s, tr)
    ELSE IF s.isSourceMode THEN s
    ELSE IF tr.present /\ tr.meta THEN s
    ELSE Logged(s, [op |-> "reentered", tr |-> tr])

\* a variant of markSyncing that leaves _syncingInlineReveal as it is
markSyncingForgotten(s) == s

\* "_syncingInlineReveal = true" before a dispatch (lines 407, 474, 586, 654)
markSyncing(s) == [s EXCEPT !.syncing = TRUE]

\* "_syncingInlineReveal = true; dispatch(tr)": the editor installs the new
\* state, then onSelectionUpdate runs if the selection changed (line 895: it
\* calls syncInlineReveal without the transaction), then onUpdate if the
\* document changed (line 888).  Both find _syncingInlineReveal set.
DispatchSyncing(s, newDoc, newFrom, newTo, tr) ==
    LET s1 == markSyncing([s EXCEPT !.doc = newDoc, !.from = newFrom, !.to = newTo])
        s2 == IF s.from # newFrom \/ s.to # newTo THEN syncOwnTransaction(s1, NoTr) ELSE s1
    IN IF tr.docChanged THEN syncOwnTransaction(s2, tr) ELSE s2

\* the transaction of expandInlineReveal (lines 436-459)
expandDoc(d, range, syntax, markName) ==
    LET len == Len(syntax)
        d1 == InsertText(d, syntax, range.to, FALSE)
        d2 == InsertText(d1, syntax, range.from, FALSE)
        d3 == RemoveMark(d2, range.from, range.to, OtherMark(markName))
        d4 == RemoveMark(d3, range.from, range.from + len, markName)
    IN RemoveMark(d4, range.to + len, range.to + 2 * len, markName)

expandMaps(range, len) == <<StepMap(range.to, 0, len), StepMap(range.from, 0, len)>>

\* expandCaret without the case of the right edge (lines 464-466)
expandCaretClamped(oldPos, range, len) ==
    IF oldPos > range.to THEN MapPos(oldPos, 1, expandMaps(range, len))
    ELSE Max(range.from, Min(oldPos, range.to)) + len

\* the caret after an expand (lines 460-470)
expandCaret(oldPos, range, len) ==
    IF oldPos = range.to THEN range.to + 2 * len
    ELSE IF oldPos > range.to THEN MapPos(oldPos, 1, expandMaps(range, len))
    ELSE Max(range.from, Min(oldPos, range.to)) + len

\* the inserting path of expandInlineReveal (lines 432-476)
expandInserting(s, c, d5, newPos) ==
    Logged([DispatchSyncing([s EXCEPT !.air = RevealFull(c.markName, c.syntax, c.range.from,
                                                         c.range.to + 2 * Len(c.syntax)),
                                      !.justExpanded = TRUE],
                            d5, newPos, newPos,
                            Tr(TRUE, TRUE, expandMaps(c.range, Len(c.syntax))))
            EXCEPT !.syncing = FALSE],
           [op |-> "expand", path |-> "insert", wasActive |-> s.air.active,
            range |-> c.range, markName |-> c.markName,
            pre |-> s.doc, post |-> d5, oldPos |-> s.from, newPos |-> newPos])

\* expandInlineReveal without the test for delimiters that already stand
\* around the range
expandAlwaysInserting(s, c) ==
    IF ~c.found \/ c.syntax = <<>> THEN s
    ELSE expandInserting(s, c, expandDoc(s.doc, c.range, c.syntax, c.markName),
                         expandCaret(s.from, c.range, Len(c.syntax)))

expandInlineReveal(s, c) ==
    IF ~c.found \/ c.syntax = <<>> THEN s
    ELSE
    LET len == Len(c.syntax)
        range == c.range
        hasLeft == range.from >= len
                   /\ TextBetween(s.doc, range.from - len, range.from) = c.syntax
        hasRight == TextBetween(s.doc, range.to, range.to + len) = c.syntax
    IN IF hasLeft /\ hasRight
       THEN Logged([s EXCEPT !.air = RevealBare(c.markName, c.syntax, range.from - len, range.to + len)],
                   [op |-> "expand", path |-> "present", wasActive |-> s.air.active,
                    range |-> range, markName |-> c.markName,
                    pre |-> s.doc, post |-> s.doc, oldPos |-> s.from, newPos |-> s.from])
       ELSE expandInserting(s, c, expandDoc(s.doc, range, c.syntax, c.markName),
                            expandCaret(s.from, range, len))

\* the caret after a collapse (lines 573-583)
CollapseCaretUnshifted(oldPos, revealStart, revealEnd, len, matched, insertedLen, size) ==
    LET newPos == IF oldPos > revealEnd THEN oldPos
                  ELSE IF oldPos >= revealStart
                  THEN IF matched
                       THEN revealStart + Max(0, Min((oldPos - revealStart) - len, insertedLen))
                       ELSE revealStart + Max(0, Min(oldPos - revealStart, insertedLen))
                  ELSE oldPos
    IN Max(1, Min(newPos, size))

CollapseCaret(oldPos, revealStart, revealEnd, len, matched, insertedLen, size) ==
    LET newPos == IF oldPos > revealEnd THEN oldPos - (revealEnd - revealStart) + insertedLen
                  ELSE IF oldPos >= revealStart
                  THEN IF matched
                       THEN revealStart + Max(0, Min((oldPos - revealStart) - len, insertedLen))
                       ELSE revealStart + Max(0, Min(oldPos - revealStart, insertedLen))
                  ELSE oldPos
    IN Max(1, Min(newPos, size))

\* the document after a collapse of the absorbed span (lines 553-571)
CollapseDoc(d, revealStart, revealEnd, segment, p) ==
    LET d1 == DeleteRange(d, revealStart, revealEnd)
        n == Len(p.inner)
    IN IF p.type # "none"
       THEN IF n > 0
            THEN AddMark(RemoveMark(InsertText(d1, p.inner, revealStart, FALSE),
                                    revealStart, revealStart + n, OtherMark(p.type)),
                         revealStart, revealStart + n, p.type)
            ELSE d1
       ELSE InsertText(d1, segment, revealStart, FALSE)

\* collapseInlineReveal from the dispatch on (lines 584-590)
collapseDispatch(s, revealStart, revealEnd, p, d2, pos) ==
    Logged([DispatchSyncing(s, d2, pos, pos, Tr(TRUE, revealEnd > revealStart, <<>>))
            EXCEPT !.syncing = FALSE, !.air = NoReveal, !.justExpanded = FALSE],
           [op |-> "collapse", air |-> s.air, revealStart |-> revealStart, revealEnd |-> revealEnd,
            parsed |-> p, pre |-> s.doc, post |-> d2, oldPos |-> s.from, newPos |-> pos,
            selEmpty |-> s.from = s.to])

\* collapseInlineReveal once the segment is parsed (lines 553-583)
collapseParsed(s, revealStart, revealEnd, segment, p, d2) ==
    collapseDispatch(s, revealStart, revealEnd, p, d2,
                     CollapseCaret(s.from, revealStart, revealEnd, Len(s.air.syntax),
                                   p.type # "none",
                                   IF p.type # "none" THEN Len(p.inner) ELSE Len(segment),
                                   ContentSize(d2)))

\* collapseInlineReveal once the span is absorbed (lines 505-551)
collapseSegment(s, revealStart, revealEnd, segment, p) ==
    collapseParsed(s, revealStart, revealEnd, segment, p,
                   CollapseDoc(s.doc, revealStart, revealEnd, segment, p))

collapseAbsorbed(s, revealStart, revealEnd, segment) ==
    collapseSegment(s, revealStart, revealEnd, segment, ParseSegment(s.air.markName, segment))

collapseSpan(s, revealStart, revealEnd) ==
    collapseAbsorbed(s, revealStart, revealEnd, TextBetween(s.doc, revealStart, revealEnd))

collapseInlineReveal(s) ==
    IF ~s.air.active THEN s
    ELSE collapseSpan(s, AbsorbLeft(s.doc, s.air.start, s.air.syntax[1], Len(s.air.syntax)),
                      AbsorbRight(s.doc, s.air.end, s.air.syntax[1], Len(s.air.syntax)))

\* reconcileActiveBoldRevealMarks once the shape is derived (lines 625-657);
\* returns [st, ret]: the state and the function's boolean result
reconcileShape(s, sh) ==
    LET a == s.air
        innerFrom == a.start + sh.leftLen
        innerTo == a.end - sh.rightLen
    IN IF sh = NoShape THEN [st |-> s, ret |-> FALSE]
       ELSE IF a.semantic = sh.target /\ a.leftLen = sh.leftLen /\ a.rightLen = sh.rightLen
       THEN [st |-> s, ret |-> FALSE]
       ELSE IF innerFrom > innerTo THEN [st |-> s, ret |-> FALSE]
       ELSE
       LET d1 == RemoveMark(RemoveMark(s.doc, a.start, a.end, "bold"), a.start, a.end, "italic")
           d2 == IF innerFrom < innerTo THEN AddMark(d1, innerFrom, innerTo, sh.target) ELSE d1
           s1 == [s EXCEPT !.air.semantic = sh.target, !.air.leftLen = sh.leftLen,
                           !.air.rightLen = sh.rightLen]
       IN [st |-> Logged([DispatchSyncing(s1, d2, s.from, s.to, Tr(TRUE, d2 # s.doc, <<>>))
                          EXCEPT !.syncing = FALSE],
                         [op |-> "reconcile", shape |-> sh, pre |-> s.doc, post |-> d2]),
           ret |-> TRUE]

reconcileActiveBoldRevealMarks(s) ==
    IF ~s.air.active \/ s.air.markName # "bold" THEN [st |-> s, ret |-> FALSE]
    ELSE reconcileShape(s, DeriveShape(TextBetween(s.doc, s.air.start, s.air.end)))

\* _inlineRevealLastKeyEvent = { key, at } is only ever read through
\*   (Date.now() - at) < 220, key.length === 1, key === 'Backspace' / 'Delete'
\* (lines 683-687, 715-718).  The model stores what those reads return:
\*   "char"   a key of length 1 pressed less than 220 ms ago,
\*   "delete" Backspace or Delete pressed less than 220 ms ago,
\*   "none"   null, an older event, or any other key.
SingleCharKeys == {Star, Underscore, Letter}
KeyEvent(key) ==
    IF key \in SingleCharKeys THEN "char"
    ELSE IF key \in {"Backspace", "Delete"} THEN "delete"
    ELSE "none"

NoKeyEvent == "none"

\* recent && isTypingOrDelete (lines 685-687)
recentTypingOrDelete(ev) == ev \in {"char", "delete"}

\* recentDelete (lines 715-718)
recentDelete(ev) == ev = "delete"

\* "if (candidate) { ...; expandInlineReveal(ed, candidate) }" (lines 724-727)
expandCandidate(s, c) ==
    IF c.found THEN expandInlineReveal([s EXCEPT !.suppress = FALSE], c) ELSE s

\* the candidate search with its right-outside fallback (lines 720-723)
orRightOutside(s, tr, c0) ==
    IF ~c0.found /\ tr.docChanged /\ recentDelete(s.lastKey)
    THEN findRevealCandidateRightOutside(s) ELSE c0

\* lines 682-727 of syncInlineReveal
SyncSelection(s, tr) ==
    IF ~tr.present /\ recentTypingOrDelete(s.lastKey)
    THEN s
    ELSE IF s.air.active
    THEN LET inside == s.from = s.to /\ s.from >= s.air.start /\ s.from <= s.air.end
             s1 == [s EXCEPT !.justExpanded = FALSE]
         IN IF s.justExpanded /\ inside THEN s1
            ELSE IF s1.from # s1.to THEN collapseInlineReveal(s1)
            ELSE IF ~inside THEN collapseInlineReveal(s1)
            ELSE s1
    ELSE IF s.from # s.to THEN s
    ELSE IF ~tr.present /\ s.suppress THEN [s EXCEPT !.suppress = FALSE]
    ELSE expandCandidate(s, orRightOutside(s, tr, findRevealCandidate(s)))

\* the reveal's bounds mapped through a document change (lines 673-678)
remapReveal(s, tr) ==
    IF s.air.active /\ tr.docChanged
    THEN [s EXCEPT !.air.start = MapPos(s.air.start, -1, tr.maps),
                   !.air.end = Max(MapPos(s.air.end, -1, tr.maps), MapPos(s.air.start, -1, tr.maps))]
    ELSE s

\* "if (reconcileActiveBoldRevealMarks(ed)) return;" then lines 682-727
syncReconciled(s, tr, rec) == IF rec.ret THEN rec.st ELSE SyncSelection(s, tr)

\* syncInlineReveal after the remapping (lines 679-727)
syncRemapped(s, tr) ==
    syncReconciled(s, tr, IF s.air.active /\ tr.docChanged
                          THEN reconcileActiveBoldRevealMarks(s)
                          ELSE [st |-> s, ret |-> FALSE])

syncInlineReveal(s, tr) ==
    IF s.syncing THEN syncWhileSyncing(s, tr)
    ELSE IF s.isSourceMode THEN s
    ELSE IF tr.present /\ tr.meta THEN s
    ELSE syncRemapped(remapReveal(IF tr.docChanged THEN [s EXCEPT !.suppress = TRUE] ELSE s, tr), tr)

\* onUpdate (line 888), after onSelectionUpdate
dispatchUpdate(s, tr) == IF tr.docChanged THEN syncInlineReveal(s, tr) ELSE s

\* The editor's dispatch of a user transaction: the new state is installed,
\* then onSelectionUpdate (line 895: syncInlineReveal without the
\* transaction) if the selection changed, then onUpdate if the document
\* changed.
Dispatch(s, newDoc, newFrom, newTo, tr) ==
    dispatchUpdate(IF s.from # newFrom \/ s.to # newTo
                   THEN syncInlineReveal([s EXCEPT !.doc = newDoc, !.from = newFrom, !.to = newTo], NoTr)
                   ELSE [s EXCEPT !.doc = newDoc, !.from = newFrom, !.to = newTo],
                   tr)

\* "tr.delete(at, at + 1); tr.setSelection(at); dispatch(tr)": one character
\* is deleted and the caret put where it was
deleteCharAt(s, at) ==
    Dispatch(s, DeleteRange(s.doc, at, at + 1), at, at, Tr(FALSE, TRUE, <<StepMap(at, 1, 0)>>))

\* 0 when the key is not handled, else the position of the marker to delete
markerToDelete(s, key) ==
    IF ~s.air.active \/ s.isSourceMode \/ s.from # s.to \/ key \notin {"Backspace", "Delete"}
    THEN 0
    ELSE IF key = "Backspace" /\ s.from > 1
            /\ TextBetween(s.doc, s.from - 1, s.from) = <<s.air.syntax[1]>>
    THEN s.from - 1
    ELSE IF key = "Delete" /\ TextBetween(s.doc, s.from, s.from + 1) = <<s.air.syntax[1]>>
    THEN s.from
    ELSE 0

\* returns [st, handled]
handleInlineRevealKeyDown(s, key) ==
    IF markerToDelete(s, key) = 0 THEN [st |-> s, handled |-> FALSE]
    ELSE [st |-> deleteCharAt(s, markerToDelete(s, key)), handled |-> TRUE]

\* the document keydown listener (lines 1741-1745)
KeyDownListener(s, key) ==
    IF ~s.isSourceMode THEN handleInlineRevealKeyDown([s EXCEPT !.lastKey = KeyEvent(key)], key)
    ELSE [st |-> [s EXCEPT !.lastKey = KeyEvent(key)], handled |-> FALSE]

(* ------------------------- typing input rules ------------------------- *)
\* length of the run of characters other than marker that ends at index k
RECURSIVE RunBack(_, _, _)
RunBack(text, k, marker) ==
    IF k >= 1 /\ text[k] # marker THEN 1 + RunBack(text, k - 1, marker) ELSE 0

\* (?<!M) M{n} ([^M]+) M{n} $ with the inner run of r characters
InputRuleMatch(text, marker, n, r) ==
    /\ Len(text) >= 2 * n + 1
    /\ \A k \in (Len(text) - n + 1)..Len(text) : text[k] = marker
    /\ r >= 1
    /\ Len(text) - 2 * n - r >= 0
    /\ \A k \in (Len(text) - 2 * n - r + 1)..(Len(text) - n - r) : text[k] = marker
    /\ (Len(text) - 2 * n - r >= 1 => text[Len(text) - 2 * n - r] # marker)

\* The input regexes of lines 277-283 on textBefore + typed text, for a
\* delimiter of n marker characters.  Returns the length of the inner text,
\* 0 when there is no match.
InputRuleInnerLen(text, marker, n) ==
    IF InputRuleMatch(text, marker, n, RunBack(text, Len(text) - n, marker))
    THEN RunBack(text, Len(text) - n, marker) ELSE 0

\* the four rules registered at lines 771-772 and 793-794: the mark, the
\* syntax handed to createTyporaRevealInputRule, the marker the regex reads
InputRules ==
    << [markName |-> "bold", syntax |-> <<Star, Star>>, marker |-> Star, n |-> 2],
       [markName |-> "bold", syntax |-> <<Star, Star>>, marker |-> Underscore, n |-> 2],
       [markName |-> "italic", syntax |-> <<Star>>, marker |-> Star, n |-> 1],
       [markName |-> "italic", syntax |-> <<Underscore>>, marker |-> Underscore, n |-> 1] >>

\* the transaction of the input rule handler (lines 372-393)
inputRuleDoc(d, rule, rangeFrom, rangeTo, innerLen) ==
    LET len == Len(rule.syntax)
        textStart == rangeFrom + rule.n
        textEnd == textStart + innerLen
        d1 == IF textEnd < rangeTo THEN DeleteRange(d, textEnd, rangeTo) ELSE d
        d2 == IF textStart > rangeFrom THEN DeleteRange(d1, rangeFrom, textStart) ELSE d1
        markFrom == rangeFrom
        markTo == markFrom + innerLen
        d3 == RemoveMark(d2, markFrom, markTo, OtherMark(rule.markName))
        d4 == AddMark(d3, markFrom, markTo, rule.markName)
        d5 == InsertText(d4, rule.syntax, markTo, TRUE)
        d6 == InsertText(d5, rule.syntax, markFrom, FALSE)
        d7 == RemoveMark(d6, markFrom, markFrom + len, rule.markName)
    IN RemoveMark(d7, markTo + len, markTo + 2 * len, rule.markName)

\* the rest of the handler (lines 395-408) and the dispatch of its transaction
inputRuleDispatch(s, rule, markFrom, caret, d8) ==
    Logged(DispatchSyncing([s EXCEPT !.air = RevealFull(rule.markName, rule.syntax, markFrom, caret),
                                     !.justExpanded = TRUE],
                           d8, caret, caret, Tr(TRUE, TRUE, <<>>)),
           [op |-> "inputRule", wasActive |-> s.air.active, markName |-> rule.markName,
            syntax |-> rule.syntax, pre |-> s.doc, post |-> d8, newPos |-> caret])

\* the handler of createTyporaRevealInputRule (lines 364-409): the match
\* covers the text before the caret, range.from = from - (matchLen - 1)
createTyporaRevealInputRule(s, rule, innerLen) ==
    inputRuleDispatch(s, rule,
                      s.from - (2 * rule.n + innerLen - 1),
                      s.from - (2 * rule.n + innerLen - 1) + innerLen + 2 * Len(rule.syntax),
                      inputRuleDoc(s.doc, rule, s.from - (2 * rule.n + innerLen - 1), s.to, innerLen))

\* the rules that match the text, in the order they are registered
RuleHits(text) ==
    {k \in 1..Len(InputRules) : InputRuleInnerLen(text, InputRules[k].marker, InputRules[k].n) > 0}

\* the plain insertion of a typed character at the selection
insertTyped(s, c) ==
    Dispatch(s, ReplaceText(s.doc, <<c>>, s.from, s.to), s.from + 1, s.from + 1,
             Tr(FALSE, TRUE, <<StepMap(s.from, s.to - s.from, 1)>>))

\* text input with the set of matching rules known
textInputWith(s, c, text, hits) ==
    IF hits # {}
    THEN createTyporaRevealInputRule(s, InputRules[CHOOSE x \in hits : \A y \in hits : x <= y],
            InputRuleInnerLen(text, InputRules[CHOOSE x \in hits : \A y \in hits : x <= y].marker,
                              InputRules[CHOOSE x \in hits : \A y \in hits : x <= y].n))
    ELSE insertTyped(s, c)

\* text input at the selection: the first input rule that matches the text
\* before the caret plus the typed character runs instead of the insertion
HandleTextInput(s, c) ==
    textInputWith(s, c, TextBetween(s.doc, 1, s.from) \o <<c>>,
                  RuleHits(TextBetween(s.doc, 1, s.from) \o <<c>>))

(* ----------------------------- user events ---------------------------- *)
\* a printable key: keydown listener, then the text input
TypeKey(s, c) == HandleTextInput(KeyDownListener(s, c).st, c)

\* the browser's default action of Backspace, unless the listener handled it
backspaceDefault(k, pos) ==
    IF k.handled \/ pos <= 1 THEN k.st ELSE deleteCharAt(k.st, pos - 1)

\* Backspace with a collapsed caret: the document listener first; unless it
\* handled the key, the browser deletes the character before the caret.
BackspaceKey(s) == backspaceDefault(KeyDownListener(s, "Backspace"), s.from)

deleteDefault(k, pos, size) ==
    IF k.handled \/ pos > size THEN k.st ELSE deleteCharAt(k.st, pos)

\* Delete with a collapsed caret
DeleteKey(s) == deleteDefault(KeyDownListener(s, "Delete"), s.from, Len(s.doc))

\* a selection change made with the mouse (click, drag, Shift+click
\* extension): no key event precedes it
MouseSelect(s, f, t) == Dispatch(s, s.doc, f, t, Tr(FALSE, FALSE, <<>>))

\* a selection change made with a navigation key (arrows, Home, End, with or
\* without Shift): the keydown listener runs first
NavKeySelect(s, f, t) ==
    Dispatch(KeyDownListener(s, "ArrowRight").st, s.doc, f, t, Tr(FALSE, FALSE, <<>>))

\* the blur handler (lines 881-885)
BlurHandler(s) == IF s.air.active THEN collapseInlineReveal(s) ELSE s

flipSourceMode(s) == [s EXCEPT !.isSourceMode = ~s.isSourceMode]

\* flips the view and keeps the reveal
EnterSourceModeKeepingReveal(s) == flipSourceMode(s)

\* toggleSourceMode, on the way into the source view (lines 1084-1088)
EnterSourceMode(s) ==
    flipSourceMode(IF ~s.isSourceMode /\ s.air.active THEN collapseInlineReveal(s) ELSE s)

(* ------------------------------ the state ----------------------------- *)
Cur ==
    [doc |-> doc, from |-> selFrom, to |-> selTo, air |-> activeInlineReveal,
     syncing |-> syncingInlineReveal, justExpanded |-> inlineRevealJustExpanded,
     lastKey |-> inlineRevealLastKeyEvent,
     suppress |-> inlineRevealSuppressNextSelectionExpand,
     isSourceMode |-> isSourceMode,
     log |-> <<>>]

\* what the handlers of the inline reveal leave alone
outsideReveal ==
    <<wysiwygComposing, sourceValue, sourceSelStart, sourceSelEnd, searchInput,
      searchMarks, searchIndex>>

InstallReveal(s) ==
    /\ doc' = s.doc
    /\ selFrom' = s.from
    /\ selTo' = s.to
    /\ activeInlineReveal' = s.air
    /\ syncingInlineReveal' = s.syncing
    /\ inlineRevealJustExpanded' = s.justExpanded
    /\ inlineRevealLastKeyEvent' = s.lastKey
    /\ inlineRevealSuppressNextSelectionExpand' = s.suppress
    /\ isSourceMode' = s.isSourceMode

Install(s) == InstallReveal(s) /\ UNCHANGED outsideReveal

(* ------------------ the source view and the caret mapping -------------- *)
\* The marks of a character in the order of the schema (TyporaBold is
\* registered before TyporaItalic, lines 835-836).
cellMarks(cell) ==
    (IF cell.b THEN <<"bold">> ELSE <<>>) \o (IF cell.i THEN <<"italic">> ELSE <<>>)

\* length of the common prefix of two mark lists
keptMarks(a, b) ==
    IF a = <<>> \/ b = <<>> \/ a[1] # b[1] THEN 0
    ELSE IF Len(a) >= 2 /\ Len(b) >= 2 /\ a[2] = b[2] THEN 2 ELSE 1

\* strongDelimiter '**' and emDelimiter '*' (src/src/markdown.js lines 12-13)
\* for the marks from index lo on, outermost first
RECURSIVE delimiters(_, _)
delimiters(marks, lo) ==
    IF lo > Len(marks) THEN <<>>
    ELSE getRevealSyntax(marks[lo]) \o delimiters(marks, lo + 1)

\* the closing delimiters of the same marks, innermost first
RECURSIVE closers(_, _)
closers(marks, lo) ==
    IF lo > Len(marks) THEN <<>>
    ELSE closers(marks, lo + 1) \o getRevealSyntax(marks[lo])

\* htmlToMarkdown(editor.getHTML()) from character k on: getHTML keeps the
\* marks open that two neighbours share from the outermost on, the converter
\* wraps a strong element in '**' and an em element in '*' and escapes a
\* literal marker character with a backslash.
RECURSIVE markdownFrom(_, _)
markdownFrom(d, k) ==
    IF k > Len(d) THEN <<>>
    ELSE delimiters(cellMarks(d[k]),
                    1 + (IF k = 1 THEN 0 ELSE keptMarks(cellMarks(d[k - 1]), cellMarks(d[k]))))
         \o (IF d[k].c \in MarkerChars THEN <<"\\", d[k].c>> ELSE <<d[k].c>>)
         \o closers(cellMarks(d[k]),
                    1 + (IF k = Len(d) THEN 0 ELSE keptMarks(cellMarks(d[k]), cellMarks(d[k + 1]))))
         \o markdownFrom(d, k + 1)

\* htmlToMarkdown (src/src/markdown.js lines 64-67) of the paragraph
htmlToMarkdown(d) == markdownFrom(d, 1)

\* markdownToHtml and setContent (lines 1143-1145) for the text that
\* htmlToMarkdown writes: '**' opens or closes strong, '*' opens or closes
\* em, a backslash makes the next character literal.
RECURSIVE markdownToDocFrom(_, _, _, _)
markdownToDocFrom(md, k, b, i) ==
    IF k > Len(md) THEN <<>>
    ELSE IF md[k] = "\\" /\ k < Len(md)
    THEN <<Ch(md[k + 1], b, i)>> \o markdownToDocFrom(md, k + 2, b, i)
    ELSE IF md[k] = Star /\ k < Len(md) /\ md[k + 1] = Star
    THEN markdownToDocFrom(md, k + 2, ~b, i)
    ELSE IF md[k] = Star THEN markdownToDocFrom(md, k + 1, b, ~i)
    ELSE <<Ch(md[k], b, i)>> \o markdownToDocFrom(md, k + 1, b, i)

markdownToDoc(md) == markdownToDocFrom(md, 1, FALSE, FALSE)

\* shortest and longest key taken from the text before the caret
MinKeyLen == 3
MaxKeyLen == 30

\* the offsets the indexOf loop visits (lines 1115-1120, 1159-1169)
Occurrences(text, key) ==
    {x \in 0..(Len(text) - Len(key)) : SubSeq(text, x + 1, x + Len(key)) = key}

\* Math.round(num / den * len); the quotient of integers gives the same
\* result as the floating-point expression for den up to 21
RoundRatio(num, den, len) == (2 * num * len + den) \div (2 * den)

AbsDiff(a, b) == IF a >= b THEN a - b ELSE b - a

\* the occurrence the loop keeps: its end is nearest to approx, and of two
\* equally near ones the first ("dist < bestDist")
BestIdx(text, key, approx) ==
    CHOOSE x \in Occurrences(text, key) :
        \A y \in Occurrences(text, key) :
            \/ AbsDiff(x + Len(key), approx) < AbsDiff(y + Len(key), approx)
            \/ AbsDiff(x + Len(key), approx) = AbsDiff(y + Len(key), approx) /\ x <= y

\* text.slice(-n)
Suffix(text, n) == SubSeq(text, Len(text) - n + 1, Len(text))

\* the key lengths of "for (len = min(30, length); len >= 3; len--)" whose
\* key occurs in text
AnchorLens(before, text) ==
    {n \in MinKeyLen..Min(MaxKeyLen, Len(before)) : Occurrences(text, Suffix(before, n)) # {}}

\* the longest key that occurs
AnchorKey(before, text) ==
    Suffix(before, CHOOSE n \in AnchorLens(before, text) :
                       \A m \in AnchorLens(before, text) : m <= n)

\* end of the best occurrence of the longest key that occurs, -1 without one
AnchorEnd(before, text, approx) ==
    IF AnchorLens(before, text) = {} THEN -1
    ELSE BestIdx(text, AnchorKey(before, text), approx) + Len(AnchorKey(before, text))

\* the approximate offset where no key occurs
sourceCaretApprox(d, cursorPos, md) ==
    IF AnchorLens(TextBetween(d, 0, cursorPos), md) = {}
    THEN RoundRatio(cursorPos, Max(1, ContentSize(d)), Len(md))
    ELSE AnchorEnd(TextBetween(d, 0, cursorPos), md,
                   RoundRatio(cursorPos, Max(1, ContentSize(d)), Len(md)))

\* targetPos of lines 1107-1123 for the structured caret cursorPos
sourceCaretIn(d, cursorPos, md) ==
    Max(0, AnchorEnd(TextBetween(d, 0, cursorPos), md,
                     RoundRatio(cursorPos, Max(1, ContentSize(d)), Len(md))))

\* mdBefore.replace(/\*\*|__|~~|`/g, '') (line 1136) on the characters of
\* the model; the line patterns of lines 1135-1141 need '#', '>', '[', a
\* digit or white space and match none of them
RECURSIVE stripDelimiters(_, _)
stripDelimiters(text, k) ==
    IF k > Len(text) THEN <<>>
    ELSE IF k < Len(text) /\ text[k] \in MarkerChars /\ text[k + 1] = text[k]
    THEN stripDelimiters(text, k + 2)
    ELSE <<text[k]>> \o stripDelimiters(text, k + 1)

\* length of the text node that starts at character k
RECURSIVE nodeLen(_, _)
nodeLen(d, k) ==
    IF k < Len(d) /\ cellMarks(d[k + 1]) = cellMarks(d[k]) THEN 1 + nodeLen(d, k + 1) ELSE 1

\* the callback of doc.descendants (lines 1174-1189) from the text node at
\* nodePos on; the paragraph node visited before has made textCount 1
RECURSIVE pmPosFrom(_, _, _, _)
pmPosFrom(d, nodePos, textCount, target) ==
    IF nodePos > Len(d) \/ textCount >= target THEN 1
    ELSE IF target >= textCount /\ target <= textCount + nodeLen(d, nodePos)
    THEN nodePos + (target - textCount)
    ELSE pmPosFrom(d, nodePos + nodeLen(d, nodePos), textCount + nodeLen(d, nodePos), target)

\* pos of lines 1150-1194 for the source caret caretPos, d the document set
\* from md
structuredCaretIn(md, caretPos, d) ==
    IF AnchorLens(stripDelimiters(SubSeq(md, 1, caretPos), 1), TextOf(d)) = {} THEN 1
    ELSE pmPosFrom(d, 1, 1,
                   AnchorEnd(stripDelimiters(SubSeq(md, 1, caretPos), 1), TextOf(d),
                             RoundRatio(caretPos, Max(1, Len(md)), Len(d))))

\* toggleSourceMode into the source view from line 1094 on, s the state
\* after lines 1084-1088
ShowSource(s) ==
    /\ InstallReveal(s)
    /\ sourceValue' = htmlToMarkdown(s.doc)
    /\ sourceSelStart' = sourceCaretIn(s.doc, s.from, htmlToMarkdown(s.doc))
    /\ sourceSelEnd' = sourceCaretIn(s.doc, s.from, htmlToMarkdown(s.doc))
    /\ UNCHANGED <<wysiwygComposing, searchInput, searchMarks, searchIndex>>

\* editor.commands.setContent(html): the document is replaced, the caret
\* goes to the end of the text, and the notifications follow
setContent(s, d) ==
    Dispatch(s, d, Len(d) + 1, Len(d) + 1, Tr(FALSE, TRUE, <<StepMap(1, Len(s.doc), Len(d))>>))

\* editor.commands.setTextSelection(Math.min(pos, size)) (line 1197)
setTextSelection(s, pos) ==
    Dispatch(s, s.doc, Min(pos, ContentSize(s.doc)), Min(pos, ContentSize(s.doc)),
             Tr(FALSE, FALSE, <<>>))

\* toggleSourceMode back into the structured view once the content is set
\* (lines 1150-1200)
showStructuredAt(s, md, caretPos) ==
    setTextSelection(s, structuredCaretIn(md, caretPos, s.doc))

\* toggleSourceMode back into the structured view (lines 1130-1204)
ShowStructured(s, md, caretPos) ==
    showStructuredAt(setContent(s, markdownToDoc(md)), md, caretPos)

Alphabet == {Star, Letter}
\* characters of a loaded document: letters with any emphasis, literal stars
Cells == {Ch(Letter, b, i) : b \in BOOLEAN, i \in BOOLEAN} \cup {Ch(Star, FALSE, FALSE)}
DocsOfLen(n) == [1..n -> Cells]
InitDocs == UNION {DocsOfLen(n) : n \in 0..(MaxSize - 1)}

\* A loaded document, one of docs, shown by an unfocused editor: nothing is
\* revealed (lines 286-290, 856), the caret is anywhere.
\* "let currentFilePath = null; let isModified = false; let isWelcomeDoc =
\* false" (src/src/index.js lines 190-193)
NoFilePath == "null"
MainStart == [currentFilePath |-> NoFilePath, isModified |-> FALSE, isWelcomeDoc |-> FALSE]

\* no file on disk
NoFiles == <<>>

\* "let _chatMessages = []", an empty chat panel, no listener registered and
\* no stream running
ChatStart ==
    [chatMessages |-> <<>>, bubbles |-> <<>>, listeners |-> <<>>, responseText |-> <<>>,
     stream |-> <<>>]

InitEditor(docs) ==
    /\ mainProcess = MainStart
    /\ files = NoFiles
    /\ aiChat = ChatStart
    /\ doc \in docs
    /\ selFrom \in 1..(Len(doc) + 1)
    /\ selTo = selFrom
    /\ activeInlineReveal = NoReveal
    /\ syncingInlineReveal = FALSE
    /\ inlineRevealJustExpanded = FALSE
    /\ inlineRevealLastKeyEvent = NoKeyEvent
    /\ inlineRevealSuppressNextSelectionExpand = FALSE
    /\ isSourceMode = FALSE
    /\ wysiwygComposing = FALSE
    /\ sourceValue = <<>>
    /\ sourceSelStart = 0
    /\ sourceSelEnd = 0
    /\ searchInput = <<>>
    /\ searchMarks = <<>>
    /\ searchIndex = -1

Init ==
    /\ InitEditor(InitDocs)
    /\ edits = Len(doc)
    /\ hist = <<>>

TypeChar(c) ==
    /\ ~isSourceMode
    /\ edits < MaxSize
    /\ Install(TypeKey(Cur, c))
    /\ edits' = edits + 1
    /\ UNCHANGED <<hist, mainProcess, files, aiChat>>

PressBackspace ==
    /\ ~isSourceMode
    /\ selFrom = selTo
    /\ edits < MaxSize
    /\ Install(BackspaceKey(Cur))
    /\ edits' = edits + 1
    /\ UNCHANGED <<hist, mainProcess, files, aiChat>>

PressDelete ==
    /\ ~isSourceMode
    /\ selFrom = selTo
    /\ edits < MaxSize
    /\ Install(DeleteKey(Cur))
    /\ edits' = edits + 1
    /\ UNCHANGED <<hist, mainProcess, files, aiChat>>

\* mouse click: the caret goes to p
ClickCaret(p) ==
    /\ ~isSourceMode
    /\ <<p, p>> # <<selFrom, selTo>>
    /\ Install(MouseSelect(Cur, p, p))
    /\ UNCHANGED <<edits, hist, mainProcess, files, aiChat>>

\* mouse drag from the caret over the character before or after it
DragSelect(p) ==
    /\ ~isSourceMode
    /\ selFrom = selTo
    /\ p \in {selFrom - 1, selFrom + 1}
    /\ Install(MouseSelect(Cur, Min(p, selFrom), Max(p, selFrom)))
    /\ UNCHANGED <<edits, hist, mainProcess, files, aiChat>>

\* arrow key, Home or End: the caret goes to p
KeyCaret(p) ==
    /\ ~isSourceMode
    /\ <<p, p>> # <<selFrom, selTo>>
    /\ p \in {Max(1, selFrom - 1), Min(Len(doc) + 1, selTo + 1), 1, Len(doc) + 1}
    /\ Install(NavKeySelect(Cur, p, p))
    /\ UNCHANGED <<edits, hist, mainProcess, files, aiChat>>

\* Shift+arrow from a caret: the selection grows by one character
KeyExtend(p) ==
    /\ ~isSourceMode
    /\ selFrom = selTo
    /\ p # selFrom
    /\ p \in {selFrom - 1, selFrom + 1}
    /\ Install(NavKeySelect(Cur, Min(p, selFrom), Max(p, selFrom)))
    /\ UNCHANGED <<edits, hist, mainProcess, files, aiChat>>

\* more than 220 ms pass since the last key event
Elapse ==
    /\ inlineRevealLastKeyEvent # NoKeyEvent
    /\ inlineRevealLastKeyEvent' = NoKeyEvent
    /\ UNCHANGED <<doc, selFrom, selTo, activeInlineReveal, syncingInlineReveal,
                   inlineRevealJustExpanded, inlineRevealSuppressNextSelectionExpand,
                   isSourceMode, edits, hist, mainProcess, files, aiChat>>
    /\ UNCHANGED outsideReveal

Blur ==
    /\ ~isSourceMode
    /\ activeInlineReveal.active
    /\ Install(BlurHandler(Cur))
    /\ UNCHANGED <<edits, hist, mainProcess, files, aiChat>>

ToggleSourceMode ==
    /\ ~isSourceMode
    /\ ShowSource(EnterSourceMode(Cur))
    /\ UNCHANGED <<edits, hist, mainProcess, files, aiChat>>

Positions == 1..(Len(doc) + 1)

Next ==
    \/ \E c \in Alphabet : TypeChar(c)
    \/ PressBackspace
    \/ PressDelete
    \/ \E p \in Positions : ClickCaret(p)
    \/ \E p \in Positions : DragSelect(p)
    \/ \E p \in Positions : KeyCaret(p)
    \/ \E p \in Positions : KeyExtend(p)
    \/ Elapse
    \/ Blur
    \/ ToggleSourceMode

Spec == Init /\ [][Next]_vars

(* ------------- every user event, applied to the current state ---------- *)
\* P holds of the handling of every user event that can occur in the current
\* state; the result r of a handling carries r.log, the expands, input rules,
\* reconciles and collapses it performed.
EveryEvent(P(_)) ==
    ~isSourceMode =>
        /\ \A c \in Alphabet : P(TypeKey(Cur, c))
        /\ (selFrom = selTo => (P(BackspaceKey(Cur)) /\ P(DeleteKey(Cur))))
        /\ \A p \in Positions : P(MouseSelect(Cur, p, p)) /\ P(NavKeySelect(Cur, p, p))
        /\ \A p \in Positions :
              (selFrom = selTo /\ p \in {selFrom - 1, selFrom + 1}) =>
                  /\ P(MouseSelect(Cur, Min(p, selFrom), Max(p, selFrom)))
                  /\ P(NavKeySelect(Cur, Min(p, selFrom), Max(p, selFrom)))
        /\ P(BlurHandler(Cur))
        /\ P(EnterSourceMode(Cur))

SomeEvent(P(_)) == ~EveryEvent(LAMBDA r : ~P(r))

\* P holds of every collapse / of some collapse in the log of r
EveryCollapse(r, P(_)) == \A k \in 1..Len(r.log) : r.log[k].op = "collapse" => P(r.log[k])
SomeCollapse(r, P(_)) == \E k \in 1..Len(r.log) : r.log[k].op = "collapse" /\ P(r.log[k])

\* what a collapse e replaced the span [revealStart, revealEnd) with
SpanText(e) == TextBetween(e.pre, e.revealStart, e.revealEnd)
ReplacedLen(e) == Len(e.post) - (Len(e.pre) - (e.revealEnd - e.revealStart))
Replaced(e) == SubSeq(e.post, e.revealStart, e.revealStart + ReplacedLen(e) - 1)
OutsideKept(e) ==
    /\ SubSeq(e.post, 1, e.revealStart - 1) = SubSeq(e.pre, 1, e.revealStart - 1)
    /\ SubSeq(e.post, e.revealStart + ReplacedLen(e), Len(e.post))
         = SubSeq(e.pre, e.revealEnd, Len(e.pre))

Unmarked(cell) == ~cell.b /\ ~cell.i
OnlyKind(cell, kind) == IF kind = "bold" THEN cell.b /\ ~cell.i ELSE cell.i /\ ~cell.b

(* ------------------------------- C1 ----------------------------------- *)
CaretMoves(s) ==
    {MouseSelect(s, p, p) : p \in 1..(Len(s.doc) + 1)}
        \cup {NavKeySelect(s, p, p) : p \in 1..(Len(s.doc) + 1)}

Fresh(r) == [r EXCEPT !.log = <<>>]

\* the caret moved out of the span revealed in r1: the reveal is collapsed
MovedOut(r1) == {r2 \in CaretMoves(Fresh(r1)) : ~r2.air.active}

\* the caret moved into or onto a boundary of an annotation: it is revealed
MovedIn == {r1 \in CaretMoves(Cur) : r1.air.active}

RoundTripReady == ~isSourceMode /\ ~activeInlineReveal.active /\ selFrom = selTo

\* C1: expand/collapse round trip.  From a state with no active reveal,
\* moving the caret into (or onto a boundary of) an annotation and then out of
\* the revealed span leaves the text and the Bold/Italic marks of every
\* character as they were.
C1_RoundTrip ==
    RoundTripReady => \A r1 \in MovedIn : \A r2 \in MovedOut(r1) : r2.doc = doc

(* ------------------------------- C2 ----------------------------------- *)
AllMarkers(text) == \A k \in 1..Len(text) : text[k] \in MarkerChars

\* the replaced text is the span's text less l leading and r trailing marker
\* characters, for some l and r
InnerKept(e) ==
    \E l \in 0..Len(SpanText(e)) :
        /\ l + ReplacedLen(e) <= Len(SpanText(e))
        /\ TextOf(Replaced(e)) = SubSeq(SpanText(e), l + 1, l + ReplacedLen(e))
        /\ AllMarkers(SubSeq(SpanText(e), 1, l))
        /\ AllMarkers(SubSeq(SpanText(e), l + ReplacedLen(e) + 1, Len(SpanText(e))))

VerbatimUnmarked(e) ==
    /\ TextOf(e.post) = TextOf(e.pre)
    /\ \A k \in e.revealStart..(e.revealEnd - 1) : Unmarked(e.post[k])

OnlyDelimitersRemoved(e) ==
    /\ OutsideKept(e)
    /\ (e.parsed.type = "none" => VerbatimUnmarked(e))
    /\ (e.parsed.type # "none" => InnerKept(e))

CollapsesRemoveOnlyDelimiters(r) == EveryCollapse(r, OnlyDelimitersRemoved)

\* C2: a collapse removes only delimiter marker characters.  When the absorbed
\* span text matches no delimiter pattern the document text is unchanged and
\* the span carries no Bold/Italic mark; when it matches, the inner text is
\* kept character for character, in order.
C2_CollapseKeepsText == EveryEvent(CollapsesRemoveOnlyDelimiters)

(* ------------------------------- C3 ----------------------------------- *)
OneKind(cells) ==
    cells # <<>> =>
        \E kind \in {"bold", "italic"} : \A k \in 1..Len(cells) : OnlyKind(cells[k], kind)

NoDelimiterLeft(e) ==
    \A k \in 1..ReplacedLen(e) : Replaced(e)[k].c # e.air.syntax[1]

CleanCollapse(e) == NoDelimiterLeft(e) /\ OneKind(Replaced(e))

CollapsesAreClean(r) == EveryCollapse(r, CleanCollapse)

\* C3: after every collapse the text that replaced the revealed span
\* contains no delimiter character of that span and carries exactly one Bold
\* or Italic annotation (none if it is empty).
C3_CollapseClean == EveryEvent(CollapsesAreClean)

(* ------------------------------- C4 ----------------------------------- *)
\* C4: in every state reached after a selection or edit notification has
\* been handled, a non-empty selection implies that no reveal is active.
C4_NoRevealUnderSelection == selFrom # selTo => ~activeInlineReveal.active

(* ------------------------------- C5 ----------------------------------- *)
CreatesOnlyWhenNone(r) ==
    \A k \in 1..Len(r.log) : r.log[k].op \in {"expand", "inputRule"} => ~r.log[k].wasActive

\* C5: a reveal is created, by expand or by the typing input rule, only when
\* none is active: an active reveal is never replaced without a collapse.
C5_CreateOnlyWhenNone == EveryEvent(CreatesOnlyWhenNone)

(* ------------------------------- C6 ----------------------------------- *)
PlainMarker(k) == k \in DOMAIN doc /\ doc[k].c \in MarkerChars /\ Unmarked(doc[k])

\* C6: an active reveal records its left and right marker lengths, and the
\* first leftLen and last rightLen characters of [start, end) are marker
\* characters that carry no Bold or Italic mark.
C6_DelimitersPlain ==
    activeInlineReveal.active =>
        /\ activeInlineReveal.semantic # "undefined"
        /\ \A k \in activeInlineReveal.start..(activeInlineReveal.start + activeInlineReveal.leftLen - 1) :
              PlainMarker(k)
        /\ \A k \in (activeInlineReveal.end - activeInlineReveal.rightLen)..(activeInlineReveal.end - 1) :
              PlainMarker(k)

(* ------------------------------- C7 ----------------------------------- *)
\* C7: while a reveal is active, every character between its delimiters
\* carries exactly one of Bold and Italic, the reveal's semantic kind.
C7_InnerOneKind ==
    activeInlineReveal.active =>
        \A k \in (activeInlineReveal.start + activeInlineReveal.leftLen)
                    ..(activeInlineReveal.end - activeInlineReveal.rightLen - 1) :
            k \in DOMAIN doc =>
                /\ activeInlineReveal.semantic \in {"bold", "italic"}
                /\ OnlyKind(doc[k], activeInlineReveal.semantic)

(* ------------------------------- C10 ---------------------------------- *)
IsMismatchedSpan(text) ==
    /\ Len(text) >= 4
    /\ SubSeq(text, 1, 2) = <<Star, Star>>
    /\ text[Len(text)] = Star
    /\ \A k \in 3..(Len(text) - 1) : text[k] \notin MarkerChars

MismatchedToItalic(e) ==
    IsMismatchedSpan(SpanText(e)) =>
        /\ ReplacedLen(e) = Len(SpanText(e)) - 3
        /\ TextOf(Replaced(e)) = SubSeq(SpanText(e), 3, Len(SpanText(e)) - 1)
        /\ \A k \in 1..ReplacedLen(e) : OnlyKind(Replaced(e)[k], "italic")
        /\ OutsideKept(e)

MismatchedCollapses(r) == EveryCollapse(r, MismatchedToItalic)

\* C10: collapsing a span whose text is two markers, a word, one marker
\* removes exactly the 3 marker characters and leaves the word in Italic.
C10_MismatchedCollapse == EveryEvent(MismatchedCollapses)

(* ------------------- C2: a reveal inside a longer run ------------------ *)
\* Length of the loaded documents of SpecNested.
NestedLen == 3

\* letters of an italic passage, some of them bold as well
NestedCells == {Ch(Letter, b, TRUE) : b \in BOOLEAN}

\* A loaded italic passage with bold stretches, shown by an unfocused editor;
\* one editing key press is left of the budget.
InitNested ==
    /\ InitEditor([1..NestedLen -> NestedCells])
    /\ edits = MaxSize - 1
    /\ hist = <<>>

SpecNested == InitNested /\ [][Next]_vars

(* ------------------------ C8: typing **word** -------------------------- *)
\* Number of characters typed in a run of SpecTyping.
MaxTyped == 7

\* Length of the plain text the typing starts in.
MaxPlain == 1

\* Plain text in a focused editor, the caret anywhere; hist records the
\* text and the caret at the start and the characters typed since.
InitTyping ==
    /\ InitEditor(UNION {[1..n -> {Ch(Letter, FALSE, FALSE)}] : n \in 0..MaxPlain})
    /\ edits = 0
    /\ hist = [typed |-> <<>>, before |-> doc, at |-> selFrom]

TypeNext(c) ==
    /\ ~isSourceMode
    /\ edits < MaxTyped
    /\ Install(TypeKey(Cur, c))
    /\ edits' = edits + 1
    /\ UNCHANGED <<mainProcess, files, aiChat>>
    /\ hist' = [hist EXCEPT !.typed = Append(@, c)]

NextTyping ==
    \/ \E c \in Alphabet : TypeNext(c)
    \/ Elapse

SpecTyping == InitTyping /\ [][NextTyping]_vars

\* the key presses of "**word**" and one more letter, the word of n letters
TypedBoldWord(n) == <<Star, Star>> \o Rep(Letter, n) \o <<Star, Star, Letter>>

\* the text before with a bold word of n letters and a plain letter at the caret
WithBoldWord(before, at, n) ==
    SubSeq(before, 1, at - 1)
        \o [k \in 1..n |-> Ch(Letter, TRUE, FALSE)]
        \o <<Ch(Letter, FALSE, FALSE)>>
        \o SubSeq(before, at, Len(before))

\* C8: typing "**word**" character by character into plain text, then one
\* non-marker character, yields exactly one Bold annotation over "word", no
\* marker character and no active reveal.
C8_TypedBold ==
    \A n \in 1..MaxTyped :
        hist.typed = TypedBoldWord(n) =>
            /\ doc = WithBoldWord(hist.before, hist.at, n)
            /\ ~activeInlineReveal.active

C8_Witness ==
    /\ hist.typed = TypedBoldWord(2)
    /\ doc = WithBoldWord(hist.before, hist.at, 2)
    /\ Len(hist.before) = 1

(* ------------------ C9: delete and retype a marker --------------------- *)
\* Length of the plain text before the bold word in SpecRetype.
MaxPrefix == 2

RetypePrefixes == UNION {[1..n -> {Ch(Letter, FALSE, FALSE), Ch(Star, FALSE, FALSE)}] : n \in 0..MaxPrefix}

\* A loaded document that ends with a bold word (in Italic as well or not),
\* shown by an unfocused editor.
InitRetype ==
    /\ InitEditor({pre \o <<Ch(Letter, TRUE, i)>> : pre \in RetypePrefixes, i \in BOOLEAN})
    /\ edits = 0
    /\ hist = [phase |-> "start"]

\* the active reveal is over the literal text "**word**"
OverBoldWord ==
    /\ activeInlineReveal.active
    /\ LET text == TextBetween(doc, activeInlineReveal.start, activeInlineReveal.end)
       IN /\ Len(text) >= 5
          /\ SubSeq(text, 1, 2) = <<Star, Star>>
          /\ SubSeq(text, Len(text) - 1, Len(text)) = <<Star, Star>>
          /\ \A k \in 3..(Len(text) - 2) : text[k] \notin MarkerChars

\* the caret is moved (mouse) before anything is deleted
MoveCaret(p) ==
    /\ hist.phase = "start"
    /\ <<p, p>> # <<selFrom, selTo>>
    /\ Install(MouseSelect(Cur, p, p))
    /\ UNCHANGED <<edits, hist, mainProcess, files, aiChat>>

LeadingMarkers == {activeInlineReveal.start, activeInlineReveal.start + 1}

Snapshot == [phase |-> "deleted", doc |-> doc, air |-> activeInlineReveal]

\* Backspace right after one of the two leading markers
BackspaceLeading ==
    /\ hist.phase = "start"
    /\ OverBoldWord
    /\ selFrom = selTo
    /\ selFrom - 1 \in LeadingMarkers
    /\ Install(BackspaceKey(Cur))
    /\ edits' = edits + 1
    /\ UNCHANGED <<mainProcess, files, aiChat>>
    /\ hist' = Snapshot

\* Delete right before one of the two leading markers
DeleteLeading ==
    /\ hist.phase = "start"
    /\ OverBoldWord
    /\ selFrom = selTo
    /\ selFrom \in LeadingMarkers
    /\ Install(DeleteKey(Cur))
    /\ edits' = edits + 1
    /\ UNCHANGED <<mainProcess, files, aiChat>>
    /\ hist' = Snapshot

\* the marker is typed again where it was deleted
RetypeMarker ==
    /\ hist.phase = "deleted"
    /\ Install(TypeKey(Cur, Star))
    /\ edits' = edits + 1
    /\ UNCHANGED <<mainProcess, files, aiChat>>
    /\ hist' = [hist EXCEPT !.phase = "retyped"]

NextRetype ==
    \/ \E p \in Positions : MoveCaret(p)
    \/ BackspaceLeading
    \/ DeleteLeading
    \/ RetypeMarker
    \/ Elapse

SpecRetype == InitRetype /\ [][NextRetype]_vars

\* C9: reconciliation symmetry.  With a reveal over "**word**", deleting one
\* leading marker and typing it again at the same place leaves the document
\* (text and marks) and the reveal's start, end, semantic kind and marker
\* lengths as they were before the deletion.
C9_RetypeSymmetry ==
    hist.phase = "retyped" =>
        /\ doc = hist.doc
        /\ activeInlineReveal.active
        /\ activeInlineReveal.start = hist.air.start
        /\ activeInlineReveal.end = hist.air.end
        /\ activeInlineReveal.semantic = hist.air.semantic
        /\ activeInlineReveal.leftLen = hist.air.leftLen
        /\ activeInlineReveal.rightLen = hist.air.rightLen

\* the retyped marker completes "*a*" with the text before the reveal: the
\* italic input rule runs and a reveal of the other kind is installed
C9_InputRuleCase ==
    /\ hist.phase = "retyped"
    /\ TextOf(hist.doc) = <<Star, Letter, Star, Star, Letter, Star, Star>>
    /\ hist.air.markName = "bold"
    /\ hist.air.semantic = "bold"
    /\ \A k \in 1..Len(hist.doc) : ~(hist.doc[k].b /\ hist.doc[k].i)
    /\ activeInlineReveal.markName = "italic"

(* ---------------- C11: no action on own notifications ------------------ *)
Reentered(r) == \E k \in 1..Len(r.log) : r.log[k].op = "reentered"

\* the transitions (expand, input rule, collapse, reconcile) of one handling
Transitions(r) == {k \in 1..Len(r.log) : r.log[k].op # "reentered"}

NoReentry(r) == ~Reentered(r) /\ Cardinality(Transitions(r)) <= 1

\* C11: the notifications of a transaction dispatched by an expand, a
\* collapse, a reconcile or a typing input rule never get past the guards of
\* syncInlineReveal, so no transition starts inside another one, and the
\* handling of one user event performs at most one transition and ends with
\* the guard cleared.
C11_NoReentry == EveryEvent(LAMBDA r : NoReentry(r) /\ ~r.syncing)

\* an event whose handling expands by insertion: the transaction moves the
\* caret and changes the document, so both notifications arrive
ExpandsOnce(r) ==
    /\ NoReentry(r)
    /\ \E k \in Transitions(r) : r.log[k].op = "expand" /\ r.log[k].path = "insert"
                                  /\ r.log[k].newPos # r.log[k].oldPos

C11_Witness == SomeEvent(ExpandsOnce)

(* ------------------------- C12: IME composition ------------------------ *)
\* the variables of the inline reveal and of the editor state
revealVars ==
    <<doc, selFrom, selTo, activeInlineReveal, syncingInlineReveal,
      inlineRevealJustExpanded, inlineRevealLastKeyEvent,
      inlineRevealSuppressNextSelectionExpand, isSourceMode>>

\* compositionstart on the editing surface (lines 864-869)
CompositionStart ==
    /\ ~isSourceMode
    /\ ~wysiwygComposing
    /\ wysiwygComposing' = TRUE
    /\ UNCHANGED <<revealVars, sourceValue, sourceSelStart, sourceSelEnd,
                   searchInput, searchMarks, searchIndex, edits, hist, mainProcess, files, aiChat>>

\* compositionend (lines 870-875)
CompositionEnd ==
    /\ wysiwygComposing
    /\ wysiwygComposing' = FALSE
    /\ UNCHANGED <<revealVars, sourceValue, sourceSelStart, sourceSelEnd,
                   searchInput, searchMarks, searchIndex, edits, hist, mainProcess, files, aiChat>>

\* The input method puts a character of the composition into the document:
\* the keydown listener sees the key "Process", the editor reads the changed
\* text and dispatches the insertion (input rules do not run on composed
\* text), and onSelectionUpdate and onUpdate follow as for any transaction.
ComposeKey(s, c) == insertTyped(KeyDownListener(s, "Process").st, c)

ComposeText(c) ==
    /\ wysiwygComposing
    /\ edits < MaxSize
    /\ Install(ComposeKey(Cur, c))
    /\ edits' = edits + 1
    /\ UNCHANGED <<hist, mainProcess, files, aiChat>>

NextComposing ==
    \/ ~wysiwygComposing /\ Next
    \/ CompositionStart
    \/ ComposeText(Letter)
    \/ CompositionEnd

SpecComposing == Init /\ [][NextComposing]_vars

\* C12: while a composition is in progress on the editing surface, the
\* handling of composed text performs no expand, collapse or reconcile.
C12_ComposingSuspends ==
    wysiwygComposing => Transitions(ComposeKey(Cur, Letter)) = {}

(* -------------------- C13: caret movement expands ---------------------- *)
\* the caret at p is inside or on a boundary of a run marked m
OnAnnotation(d, p, m) == HasMark(d, p - 1, m) \/ HasMark(d, p, m)

\* the caret moved to p, by the mouse or by a navigation key
CaretMovesTo(p) == {MouseSelect(Cur, p, p), NavKeySelect(Cur, p, p)}

\* r reveals an annotation the caret was moved onto
RevealsAt(r, p) ==
    /\ r.air.active
    /\ OnAnnotation(doc, p, r.air.markName)

\* C13: in the structured view with no active reveal, every caret movement
\* that ends inside or on a boundary of a Bold or Italic annotation leaves a
\* reveal of that annotation active, also right after a document edit.
C13_CaretExpands ==
    (~isSourceMode /\ ~activeInlineReveal.active) =>
        \A p \in Positions \ {selFrom} :
            (OnAnnotation(doc, p, "bold") \/ OnAnnotation(doc, p, "italic")) =>
                \A r \in CaretMovesTo(p) : RevealsAt(r, p)

\* long after the last key press, the first caret movement after an edit
\* ends on an annotation and nothing is revealed
C13_SuppressedCase ==
    /\ ~isSourceMode
    /\ ~activeInlineReveal.active
    /\ inlineRevealLastKeyEvent = NoKeyEvent
    /\ inlineRevealSuppressNextSelectionExpand
    /\ \E p \in Positions \ {selFrom} :
          /\ OnAnnotation(doc, p, "bold")
          /\ ~MouseSelect(Cur, p, p).air.active

(* ------------------- C14: caret movement collapses --------------------- *)
\* C14: while a reveal is active, every movement of the caret to a position
\* strictly outside [start, end] leaves no reveal active.
C14_CaretCollapses ==
    (~isSourceMode /\ activeInlineReveal.active) =>
        \A p \in Positions \ {selFrom} :
            (p < activeInlineReveal.start \/ p > activeInlineReveal.end) =>
                \A r \in CaretMovesTo(p) : ~r.air.active

\* long after the last key press the caret leaves the span and the reveal
\* is collapsed
C14_Witness ==
    /\ ~isSourceMode
    /\ activeInlineReveal.active
    /\ inlineRevealLastKeyEvent = NoKeyEvent
    /\ \E p \in Positions \ {selFrom} :
          /\ p > activeInlineReveal.end
          /\ \A r \in CaretMovesTo(p) :
                ~r.air.active /\ \E k \in Transitions(r) : r.log[k].op = "collapse"


(* ============================== C15 ==================================== *)
\* The texts on which markdownToDoc is the parser of the program: no
\* backslash escape and no run of three or more asterisks.
DelimitersApart(md) ==
    /\ \A k \in 1..Len(md) : md[k] # "\\"
    /\ \A k \in 1..(Len(md) - 2) : ~(md[k] = Star /\ md[k + 1] = Star /\ md[k + 2] = Star)

\* the button or the menu command in the source view (lines 1084-1088 and
\* 1130-1204)
ToStructuredView ==
    /\ isSourceMode
    /\ DelimitersApart(sourceValue)
    /\ Install(ShowStructured(EnterSourceMode(Cur), sourceValue, sourceSelStart))
    /\ UNCHANGED <<edits, hist, mainProcess, files, aiChat>>

\* the caret of the source text is put at offset p
MoveSourceCaret(p) ==
    /\ isSourceMode
    /\ p # sourceSelStart
    /\ sourceSelStart' = p
    /\ sourceSelEnd' = p
    /\ UNCHANGED <<revealVars, wysiwygComposing, sourceValue, searchInput, searchMarks,
                   searchIndex, edits, hist, mainProcess, files, aiChat>>

SourceOffsets == 0..Len(sourceValue)

NextViews ==
    \/ Next
    \/ ToStructuredView
    \/ \E p \in SourceOffsets : MoveSourceCaret(p)

SpecViews == Init /\ [][NextViews]_vars

\* C15: after a blur of the editing surface and after a switch to source mode
\* no reveal is active, and no reveal is active while source mode is on.
C15_NoRevealInSource ==
    /\ isSourceMode => ~activeInlineReveal.active
    /\ ~BlurHandler(Cur).air.active
    /\ ~isSourceMode => ~EnterSourceMode(Cur).air.active

\* a reveal is active when the blur or the switch to source mode happens
C15_Witness ==
    /\ ~isSourceMode
    /\ activeInlineReveal.active
    /\ ~BlurHandler(Cur).air.active
    /\ EnterSourceMode(Cur).isSourceMode
    /\ ~EnterSourceMode(Cur).air.active


(* ============================== C16 ==================================== *)
\* documents of two plain letters and a bold one
MapLen == 5
OtherLetter == "b"
MappingDocs ==
    UNION {[1..n -> {Ch(Letter, FALSE, FALSE), Ch(OtherLetter, FALSE, FALSE),
                     Ch(Letter, TRUE, FALSE)}] : n \in 0..MapLen}

InitMapping ==
    /\ InitEditor(MappingDocs)
    /\ edits = Len(doc)
    /\ hist = <<>>

NextMapping ==
    \/ ToggleSourceMode
    \/ \E p \in SourceOffsets : MoveSourceCaret(p)
    \/ ToStructuredView

SpecMapping == InitMapping /\ [][NextMapping]_vars

\* no key of MinKeyLen or more characters from the end of before occurs in text
NoKey(before, text) ==
    \A n \in MinKeyLen..Len(before) :
        \A x \in 0..(Len(text) - n) : SubSeq(text, x + 1, x + n) # Suffix(before, n)

\* the text of the structured view that the switch from the source view
\* searches: the document after setContent
TextAfterSetContent ==
    TextOf(setContent(EnterSourceMode(Cur), markdownToDoc(sourceValue)).doc)

DocToSerialize == EnterSourceMode(Cur).doc

\* the source offset for the structured caret p of that document
SourceCaretOf(p) == sourceCaretIn(DocToSerialize, p, htmlToMarkdown(DocToSerialize))
KeyFoundInSource(p) ==
    ~NoKey(TextBetween(DocToSerialize, 0, p), htmlToMarkdown(DocToSerialize))

\* the structured selection for the source caret p of the source text
StructuredCaretOf(p) == ShowStructured(EnterSourceMode(Cur), sourceValue, p).from
KeyFoundInStructured(p) ==
    ~NoKey(stripDelimiters(SubSeq(sourceValue, 1, p), 1), TextAfterSetContent)

\* C17: position mapping is order-preserving: two carets p1 < p2 of one
\* snapshot for both of which a key is found are mapped to q1 <= q2, from the
\* structured view to the source text and from the source text to the
\* structured view.
C17_OrderPreserving ==
    /\ ~isSourceMode =>
           \A p1, p2 \in 1..(Len(DocToSerialize) + 1) :
               (p1 < p2 /\ KeyFoundInSource(p1) /\ KeyFoundInSource(p2))
                   => SourceCaretOf(p1) <= SourceCaretOf(p2)
    /\ (isSourceMode /\ DelimitersApart(sourceValue)) =>
           \A p1, p2 \in SourceOffsets :
               (p1 < p2 /\ KeyFoundInStructured(p1) /\ KeyFoundInStructured(p2))
                   => StructuredCaretOf(p1) <= StructuredCaretOf(p2)

\* plain "abab" followed by a bold "a": the carets 5 and 6 have the keys
\* "abab" and "aba"
C17_Witness ==
    /\ ~isSourceMode
    /\ doc = <<Ch(Letter, FALSE, FALSE), Ch(OtherLetter, FALSE, FALSE), Ch(Letter, FALSE, FALSE),
               Ch(OtherLetter, FALSE, FALSE), Ch(Letter, TRUE, FALSE)>>
    /\ KeyFoundInSource(5)
    /\ KeyFoundInSource(6)
    /\ SourceCaretOf(5) = 4
    /\ SourceCaretOf(6) = 3


(* ========================= search and replace ========================== *)
\* toLowerCase on the characters of the model
UpperLetter == "A"
Lower(c) == IF c = UpperLetter THEN Letter ELSE c
LowerText(text) == [k \in 1..Len(text) |-> Lower(text[k])]

\* the elements of a finite set of integers in ascending order
RECURSIVE Ascending(_)
Ascending(S) ==
    IF S = {} THEN <<>>
    ELSE <<CHOOSE x \in S : \A y \in S : x <= y>>
         \o Ascending(S \ {CHOOSE x \in S : \A y \in S : x <= y})

\* the positions at which the indexOf loop of findAllMatches finds the query
\* inside one text node (lines 1530-1537): characters k .. k+n-1 carry the
\* same marks and equal the query ignoring case
NodeMatches(d, query) ==
    {k \in 1..(Len(d) - Len(query) + 1) :
        \A j \in 0..(Len(query) - 1) :
            /\ cellMarks(d[k + j]) = cellMarks(d[k])
            /\ Lower(d[k + j].c) = Lower(query[j + 1])}

MatchAt(from, query) == [from |-> from, to |-> from + Len(query)]

\* findAllMatches (lines 1526-1541)
findAllMatches(d, query) ==
    IF query = <<>> THEN <<>>
    ELSE [k \in 1..Cardinality(NodeMatches(d, query)) |->
              MatchAt(Ascending(NodeMatches(d, query))[k], query)]

\* the positions of doSearch in the source text (lines 1606-1614)
sourceMatches(text, query) ==
    IF query = <<>> THEN <<>>
    ELSE [k \in 1..Cardinality(Occurrences(LowerText(text), LowerText(query))) |->
              MatchAt(Ascending(Occurrences(LowerText(text), LowerText(query)))[k], query)]

\* setTextSelection clamps a position to the text of the document
ClampPos(d, p) == Max(1, Min(p, Len(d) + 1))

\* editor.commands.setTextSelection({ from: m.from, to: m.to }) (line 1659)
selectMatch(s, m) ==
    Dispatch(s, s.doc, ClampPos(s.doc, m.from), ClampPos(s.doc, m.to), Tr(FALSE, FALSE, <<>>))

\* doSearch in the structured view from line 1622 on, marks the result of
\* findAllMatches
searchStructured(s, marks) == IF marks = <<>> THEN s ELSE selectMatch(s, marks[1])

\* an index that stops at the first and at the last match instead of wrapping
WrapIndexClamped(index, n) == IF index < 0 THEN 0 ELSE IF index >= n THEN n - 1 ELSE index

\* ((index % length) + length) % length (line 1641)
WrapIndex(index, n) == ((index % n) + n) % n

\* what the view and the ranges were computed for
ViewNow(source) == IF source THEN "source" ELSE "structured"

\* doSearch (lines 1586-1637) with the value query of the search input;
\* s is the editor, text the source text it searches and selStart, selEnd the
\* selection of the source text
doSearchIn(s, text, query, selStart, selEnd) ==
    /\ searchInput' = query
    /\ UNCHANGED <<mainProcess, files, aiChat>>
    /\ hist' = [marksView |-> IF query = <<>> THEN "none" ELSE ViewNow(s.isSourceMode)]
    /\ IF s.isSourceMode
       THEN /\ searchMarks' = sourceMatches(text, query)
            /\ searchIndex' = IF sourceMatches(text, query) = <<>> THEN -1 ELSE 0
            /\ sourceSelStart' = IF sourceMatches(text, query) = <<>> THEN selStart
                                 ELSE sourceMatches(text, query)[1].from
            /\ sourceSelEnd' = IF sourceMatches(text, query) = <<>> THEN selEnd
                               ELSE sourceMatches(text, query)[1].to
            /\ InstallReveal(s)
       ELSE /\ searchMarks' = findAllMatches(s.doc, query)
            /\ searchIndex' = IF findAllMatches(s.doc, query) = <<>> THEN -1 ELSE 0
            /\ InstallReveal(searchStructured(s, findAllMatches(s.doc, query)))
            /\ UNCHANGED <<sourceSelStart, sourceSelEnd>>

\* the number of search operations of one behaviour
MaxSearchOps == 3

\* the input event of the search input
DoSearch(query) ==
    /\ edits < MaxSearchOps
    /\ query # searchInput
    /\ doSearchIn(Cur, sourceValue, query, sourceSelStart, sourceSelEnd)
    /\ edits' = edits + 1
    /\ UNCHANGED <<wysiwygComposing, sourceValue>>

\* closeSearchBar (lines 1568-1583)
CloseSearch ==
    /\ searchInput # <<>>
    /\ searchInput' = <<>>
    /\ searchMarks' = <<>>
    /\ searchIndex' = -1
    /\ UNCHANGED <<mainProcess, files, aiChat>>
    /\ hist' = [marksView |-> "none"]
    /\ UNCHANGED <<revealVars, wysiwygComposing, sourceValue, sourceSelStart, sourceSelEnd, edits>>

\* navigateSearchResult(searchIndex + step) (lines 1639-1668); the text area
\* keeps a selection inside its text
NavigateSearchResult(step) ==
    /\ edits < MaxSearchOps
    /\ searchMarks # <<>>
    /\ edits' = edits + 1
    /\ searchIndex' = WrapIndex(searchIndex + step, Len(searchMarks))
    /\ IF isSourceMode
       THEN /\ sourceSelStart' = Min(searchMarks[searchIndex' + 1].from, Len(sourceValue))
            /\ sourceSelEnd' = Min(searchMarks[searchIndex' + 1].to, Len(sourceValue))
            /\ UNCHANGED revealVars
       ELSE /\ InstallReveal(selectMatch(Cur, searchMarks[searchIndex' + 1]))
            /\ UNCHANGED <<sourceSelStart, sourceSelEnd>>
    /\ UNCHANGED <<wysiwygComposing, sourceValue, searchInput, searchMarks, hist, mainProcess, files, aiChat>>

\* setTextSelection(m), deleteSelection, insertContent(replacement) on the
\* document d of one transaction: the document and the steps after them
replaceMatch(d, m, replacement) ==
    [doc |-> InsertText(DeleteRange(d, ClampPos(d, m.from), ClampPos(d, m.to)), replacement,
                        ClampPos(d, m.from), FALSE),
     maps |-> (IF ClampPos(d, m.to) > ClampPos(d, m.from)
               THEN <<StepMap(ClampPos(d, m.from), ClampPos(d, m.to) - ClampPos(d, m.from), 0)>>
               ELSE <<>>)
              \o <<StepMap(ClampPos(d, m.from), 0, Len(replacement))>>,
     caret |-> ClampPos(d, m.from) + Len(replacement)]

\* the chain of doReplaceAll over the ranges marks[k], ..., marks[1] (lines
\* 1720-1725)
RECURSIVE replaceEach(_, _, _, _)
replaceEach(r, marks, k, replacement) ==
    IF k = 0 THEN r
    ELSE replaceEach([doc |-> replaceMatch(r.doc, marks[k], replacement).doc,
                      maps |-> r.maps \o replaceMatch(r.doc, marks[k], replacement).maps,
                      caret |-> replaceMatch(r.doc, marks[k], replacement).caret],
                     marks, k - 1, replacement)

\* chain.run(): the transaction is dispatched
runChain(s, r) == Dispatch(s, r.doc, r.caret, r.caret, Tr(FALSE, TRUE, r.maps))

\* text.substring(from, to) with 0-based offsets
Substring(text, from, to) == SubSeq(text, Min(from, Len(text)) + 1, Min(to, Len(text)))

\* the loop of doReplaceAll over the source text from lastEnd on (lines
\* 1710-1716)
RECURSIVE replaceFrom(_, _, _, _)
replaceFrom(text, query, replacement, lastEnd) ==
    IF {x \in Occurrences(LowerText(text), LowerText(query)) : x >= lastEnd} = {}
    THEN Substring(text, lastEnd, Len(text))
    ELSE Substring(text, lastEnd,
                   CHOOSE x \in Occurrences(LowerText(text), LowerText(query)) :
                       /\ x >= lastEnd
                       /\ \A y \in Occurrences(LowerText(text), LowerText(query)) :
                              y >= lastEnd => x <= y)
         \o replacement
         \o replaceFrom(text, query, replacement,
                        Len(query) + CHOOSE x \in Occurrences(LowerText(text), LowerText(query)) :
                                         /\ x >= lastEnd
                                         /\ \A y \in Occurrences(LowerText(text), LowerText(query)) :
                                                y >= lastEnd => x <= y)

\* doReplace (lines 1670-1696); assigning the value of the text area puts its
\* caret at the end of the text
DoReplace(replacement) ==
    /\ edits < MaxSearchOps
    /\ edits' = edits + 1
    /\ searchInput # <<>>
    /\ searchMarks # <<>>
    /\ searchIndex >= 0
    /\ IF isSourceMode
       THEN /\ sourceValue' = Substring(sourceValue, 0, searchMarks[searchIndex + 1].from)
                              \o replacement
                              \o Substring(sourceValue, searchMarks[searchIndex + 1].to,
                                           Len(sourceValue))
            /\ doSearchIn(Cur, sourceValue', searchInput, Len(sourceValue'), Len(sourceValue'))
       ELSE /\ doSearchIn(runChain(Cur, replaceMatch(doc, searchMarks[searchIndex + 1],
                                                     replacement)),
                          sourceValue, searchInput, sourceSelStart, sourceSelEnd)
            /\ UNCHANGED sourceValue
    /\ UNCHANGED wysiwygComposing

\* the editor after the chain of doReplaceAll in the structured view
replaceAllStructured(s, marks, replacement) ==
    runChain(s, replaceEach([doc |-> s.doc, maps |-> <<>>, caret |-> s.from], marks, Len(marks),
                            replacement))

\* doReplaceAll (lines 1698-1730)
DoReplaceAll(replacement) ==
    /\ edits < MaxSearchOps
    /\ edits' = edits + 1
    /\ searchInput # <<>>
    /\ searchMarks # <<>>
    /\ IF isSourceMode
       THEN /\ sourceValue' = replaceFrom(sourceValue, searchInput, replacement, 0)
            /\ doSearchIn(Cur, sourceValue', searchInput, Len(sourceValue'), Len(sourceValue'))
       ELSE /\ doSearchIn(replaceAllStructured(Cur, searchMarks, replacement), sourceValue,
                          searchInput, sourceSelStart, sourceSelEnd)
            /\ UNCHANGED sourceValue
    /\ UNCHANGED wysiwygComposing

\* the texts searched: short ones with bold and upper-case characters, longer
\* plain ones
SearchMarked == 2
SearchPlain == 5
MaxQuery == 3
SearchDocs ==
    UNION {[1..n -> {Ch(Letter, FALSE, FALSE), Ch(OtherLetter, FALSE, FALSE),
                     Ch(UpperLetter, FALSE, FALSE), Ch(Letter, TRUE, FALSE),
                     Ch(OtherLetter, TRUE, FALSE)}] : n \in 0..SearchMarked}
    \cup UNION {[1..n -> {Ch(Letter, FALSE, FALSE), Ch(OtherLetter, FALSE, FALSE)}] :
                    n \in 0..SearchPlain}
Queries == {Rep(Letter, n) : n \in 1..MaxQuery}
Replacements == {<<"X">>}

InitSearch ==
    /\ InitEditor(SearchDocs)
    /\ edits = 0
    /\ hist = [marksView |-> "none"]

NextSearch ==
    \/ \E query \in Queries : DoSearch(query)
    \/ CloseSearch
    \/ \E step \in {-1, 1} : NavigateSearchResult(step)
    \/ \E replacement \in Replacements : DoReplace(replacement)
    \/ \E replacement \in Replacements : DoReplaceAll(replacement)
    \/ ToggleSourceMode
    \/ ToStructuredView

SpecSearch == InitSearch /\ [][NextSearch]_vars


(* ============================== C18 ==================================== *)
\* the ranges marks over text, whose first character has offset base: in
\* ascending order of start, pairwise non-overlapping, each covering text
\* equal to the query ignoring case
RangesApart(marks, text, query, base) ==
    /\ \A k \in 1..Len(marks) :
           /\ marks[k].from >= base
           /\ marks[k].to - base <= Len(text)
           /\ LowerText(SubSeq(text, marks[k].from - base + 1, marks[k].to - base))
                  = LowerText(query)
    /\ \A k \in 1..(Len(marks) - 1) :
           /\ marks[k].from < marks[k + 1].from
           /\ marks[k].to <= marks[k + 1].from

\* C18: for every text and every non-empty query the search returns ranges in
\* ascending order of start offset that are pairwise non-overlapping and
\* cover text equal to the query ignoring case, in the structured view and in
\* the source text.
C18_RangesApart ==
    \A query \in Queries :
        IF isSourceMode
        THEN RangesApart(sourceMatches(sourceValue, query), sourceValue, query, 0)
        ELSE RangesApart(findAllMatches(doc, query), TextOf(doc), query, 1)

\* the search for "aa" in "aaa" has stored the ranges [1, 3) and [2, 4)
C18_Witness ==
    /\ ~isSourceMode
    /\ TextOf(doc) = Rep(Letter, 3)
    /\ searchInput = Rep(Letter, 2)
    /\ searchMarks = <<MatchAt(1, searchInput), MatchAt(2, searchInput)>>


(* ============================== C19 ==================================== *)
\* the editor after doReplaceAll in the structured view, the search that
\* ends it included
afterReplaceAll(s, query) == searchStructured(s, findAllMatches(s.doc, query))
StructuredAfter(replacement) ==
    afterReplaceAll(replaceAllStructured(Cur, searchMarks, replacement), searchInput)

\* the characters of d outside the matches of n characters that start at starts
OutsideCells(d, starts, n) ==
    [j \in 1..Cardinality({k \in 1..Len(d) : \A x \in starts : k < x \/ k >= x + n}) |->
        d[Ascending({k \in 1..Len(d) : \A x \in starts : k < x \/ k >= x + n})[j]]]

\* a is b with some elements left out
RECURSIVE IsSubseq(_, _)
IsSubseq(a, b) ==
    \/ a = <<>>
    \/ /\ b # <<>>
       /\ IF Head(a) = Head(b) THEN IsSubseq(Tail(a), Tail(b)) ELSE IsSubseq(a, Tail(b))

StartsApart(starts, n) == \A x, y \in starts : x < y => x + n <= y

\* d from character k on with every match replaced by the replacement, which
\* takes the emphasis of the text it replaces
RECURSIVE EveryMatchReplaced(_, _, _, _, _)
EveryMatchReplaced(d, starts, n, replacement, k) ==
    IF k > Len(d) THEN <<>>
    ELSE IF k \in starts
    THEN [j \in 1..Len(replacement) |-> Ch(replacement[j], d[k].b, d[k].i)]
         \o EveryMatchReplaced(d, starts, n, replacement, k + n)
    ELSE <<d[k]>> \o EveryMatchReplaced(d, starts, n, replacement, k + 1)

\* before is turned into after: the text outside the matches is kept, no
\* match is left, and where the matches do not overlap after is before with
\* every match replaced
AllReplaced(before, after, query, replacement) ==
    /\ IsSubseq(OutsideCells(before, NodeMatches(before, query), Len(query)), after)
    /\ NodeMatches(after, query) = {}
    /\ StartsApart(NodeMatches(before, query), Len(query))
           => after = EveryMatchReplaced(before, NodeMatches(before, query), Len(query),
                                         replacement, 1)

\* C19: doReplaceAll replaces every match of the query by the replacement and
\* leaves the text outside the matches unchanged, in the structured view (no
\* reveal involved) as in the source text, also when the occurrences of the
\* query overlap.
C19_ReplaceAll ==
    \A replacement \in Replacements :
        /\ (/\ ~isSourceMode
            /\ searchMarks # <<>>
            /\ searchMarks = findAllMatches(doc, searchInput)
            /\ ~activeInlineReveal.active
            /\ ~StructuredAfter(replacement).air.active)
               => AllReplaced(doc, StructuredAfter(replacement).doc, searchInput, replacement)
        /\ (/\ isSourceMode
            /\ searchMarks # <<>>
            /\ searchMarks = sourceMatches(sourceValue, searchInput))
               => AllReplaced(Plain(sourceValue),
                              Plain(replaceFrom(sourceValue, searchInput, replacement, 0)),
                              searchInput, replacement)

\* "aaaab" searched for "aaa": the two matches overlap, and replace-all
\* leaves "X"
C19_Witness ==
    /\ ~isSourceMode
    /\ TextOf(doc) = Rep(Letter, 4) \o <<OtherLetter>>
    /\ searchInput = Rep(Letter, 3)
    /\ searchMarks = findAllMatches(doc, searchInput)
    /\ Len(searchMarks) = 2
    /\ \E replacement \in Replacements : StructuredAfter(replacement).doc = Plain(replacement)


(* ============================== C20 ==================================== *)
\* a step that reads the stored ranges: next or previous, replace, replace-all
UsesSearchMarks ==
    \/ \E step \in {-1, 1} : NavigateSearchResult(step)
    \/ \E replacement \in Replacements : DoReplace(replacement)
    \/ \E replacement \in Replacements : DoReplaceAll(replacement)

\* C20: the ranges computed for one view (structured positions or offsets of
\* the source text) are never used by next/previous, replace or replace-all
\* as offsets of the other view, also when the view is switched while a
\* search is open.
C20_SpacesApart ==
    [][UsesSearchMarks => hist.marksView = ViewNow(isSourceMode)]_vars

\* ranges of the structured view have been used to select in the source
\* text, and the selected text is not the query
C20_Witness ==
    /\ isSourceMode
    /\ hist.marksView = "structured"
    /\ searchIndex >= 0
    /\ searchMarks # <<>>
    /\ sourceSelStart < sourceSelEnd
    /\ sourceSelStart = searchMarks[searchIndex + 1].from
    /\ LowerText(Substring(sourceValue, sourceSelStart, sourceSelEnd)) # LowerText(searchInput)


(* ============================== C21 ==================================== *)
\* The handlings of the user edits that can occur strictly inside the span of
\* the active reveal: a typed character, Backspace, Delete.
EditsInside ==
    IF isSourceMode \/ ~activeInlineReveal.active \/ selFrom # selTo THEN {}
    ELSE {TypeKey(Cur, c) : c \in {x \in Alphabet : activeInlineReveal.start < selFrom
                                                    /\ selFrom < activeInlineReveal.end}}
         \cup {BackspaceKey(Cur) : x \in {1} \cap {y \in {1} : activeInlineReveal.start < selFrom
                                                              /\ selFrom <= activeInlineReveal.end}}
         \cup {DeleteKey(Cur) : x \in {1} \cap {y \in {1} : activeInlineReveal.start <= selFrom
                                                           /\ selFrom < activeInlineReveal.end}}

\* the literal text of the span of the reveal of r, and the shape derived from it
SpanOf(r) == TextBetween(r.doc, r.air.start, r.air.end)
ShapeOf(r) == DeriveShape(SpanOf(r))

\* the record and the inner region of the reveal of r equal the shape sh
RecordedAs(r, sh) ==
    /\ r.air.semantic = sh.target
    /\ r.air.leftLen = sh.leftLen
    /\ r.air.rightLen = sh.rightLen
    /\ \A k \in (r.air.start + sh.leftLen)..(r.air.end - sh.rightLen - 1) :
           OnlyKind(r.doc[k], sh.target)

\* C21: while a reveal of either kind is active, after each user edit inside
\* its span the recorded semantic kind, the recorded marker lengths and the
\* annotation of the inner region equal the shape derived from the literal
\* text of [start, end).
C21_ReconcileEitherKind ==
    \A r \in EditsInside :
        (r.air.active /\ ShapeOf(r) # NoShape) => RecordedAs(r, ShapeOf(r))

\* an edit inside an italic reveal after which the record differs from the
\* derived shape
C21_ItalicCase ==
    /\ activeInlineReveal.markName = "italic"
    /\ \E r \in EditsInside :
           /\ r.air.active
           /\ r.air.markName = "italic"
           /\ Transitions(r) = {}
           /\ ShapeOf(r) # NoShape
           /\ ~RecordedAs(r, ShapeOf(r))


(* ============================== C22 ==================================== *)
\* text is two markers of one family, an inner text without markers, and
\* the same two markers
DoublyWrapped(text) ==
    /\ Len(text) >= 5
    /\ text[1] \in MarkerChars
    /\ \A k \in {2, Len(text) - 1, Len(text)} : text[k] = text[1]
    /\ \A k \in 3..(Len(text) - 2) : text[k] \notin MarkerChars

\* the collapse e of a doubly wrapped span leaves the inner text, in Bold
CollapsedToBold(e) ==
    DoublyWrapped(SpanText(e)) =>
        /\ TextOf(Replaced(e)) = SliceInner(SpanText(e), 2, 2)
        /\ \A k \in 1..Len(Replaced(e)) : OnlyKind(Replaced(e)[k], "bold")

DoublyWrappedCollapses(r) == EveryCollapse(r, CollapsedToBold)

\* C22: collapsing a span whose literal text is exactly two same-family
\* markers, an inner text and two markers yields a Bold annotation over that
\* inner text, for a reveal created with either kind.
C22_DoubleMarkersBold == EveryEvent(DoublyWrappedCollapses)

ItalicDoublyWrapped(e) == e.air.markName = "italic" /\ DoublyWrapped(SpanText(e))
CollapsesItalicDoublyWrapped(r) == SomeCollapse(r, ItalicDoublyWrapped)

\* a reveal created as Italic is collapsed over a doubly wrapped span
C22_ItalicCase == SomeEvent(CollapsesItalicDoublyWrapped)


(* ============================== C23 ==================================== *)
\* text is l markers of one family, an inner text without markers, and r
\* markers of the same family
WrappedBy(text, l, r) ==
    /\ Len(text) >= l + r + 1
    /\ text[1] \in MarkerChars
    /\ \A k \in (1..l) \cup ((Len(text) - r + 1)..Len(text)) : text[k] = text[1]
    /\ \A k \in (l + 1)..(Len(text) - r) : text[k] \notin MarkerChars

Reconciled(r) == \E k \in 1..Len(r.log) : r.log[k].op = "reconcile"

\* the reveal of r is recorded as Italic with the marker lengths l and r2,
\* and exactly the text between the delimiters is annotated, in Italic
ItalicBetween(r, l, r2) ==
    /\ r.air.semantic = "italic"
    /\ r.air.leftLen = l
    /\ r.air.rightLen = r2
    /\ \A k \in r.air.start..(r.air.end - 1) :
           IF k >= r.air.start + l /\ k < r.air.end - r2
           THEN OnlyKind(r.doc[k], "italic") ELSE Unmarked(r.doc[k])

MismatchedRecorded(r) ==
    \A lens \in {<<2, 1>>, <<1, 2>>} :
        (r.air.active /\ Reconciled(r) /\ WrappedBy(SpanOf(r), lens[1], lens[2]))
            => ItalicBetween(r, lens[1], lens[2])

\* C23: when the literal text of an active reveal has two markers on one
\* side and one marker of the same family on the other, reconcile records
\* Italic with leftLen and rightLen equal to the actual marker counts and
\* annotates exactly the text between those delimiters.
C23_MismatchedLengths == EveryEvent(MismatchedRecorded)

ReconciledMismatched(r) ==
    r.air.active /\ Reconciled(r) /\ WrappedBy(SpanOf(r), 2, 1)

\* a reconcile has run on a span of two markers, a text and one marker
C23_Witness == SomeEvent(ReconciledMismatched)


(* ============================== C24 ==================================== *)
SpanUnmarked(r) == \A k \in r.air.start..(r.air.end - 1) : Unmarked(r.doc[k])

\* C24: while a reveal is active, if after an edit the literal text of
\* [start, end) matches no shape, no character of the span carries a Bold or
\* Italic annotation.
C24_NoShapeNoAnnotation ==
    \A r \in EditsInside : (r.air.active /\ ShapeOf(r) = NoShape) => SpanUnmarked(r)

\* Backspace or Delete has removed the last marker of one side of a bold
\* reveal
C24_Witness ==
    /\ activeInlineReveal.markName = "bold"
    /\ \E r \in {BackspaceKey(Cur), DeleteKey(Cur)} \cap EditsInside :
           /\ r.air.active
           /\ Len(r.doc) < Len(doc)
           /\ ShapeOf(r) = NoShape
           /\ ShapeOf(Cur) # NoShape
           /\ ~SpanUnmarked(r)


(* ============================== C25 ==================================== *)
\* typing with the star and the underscore variant, and clicks
MaxVariantKeys == 3

TypeVariant(c) == edits < MaxVariantKeys /\ TypeNext(c)

NextVariants ==
    \/ \E c \in SingleCharKeys : TypeVariant(c)
    \/ \E p \in Positions : ClickCaret(p)
    \/ Elapse

SpecVariants == InitTyping /\ [][NextVariants]_vars

\* the canonical marker of a kind
CanonicalMarker(markName) == IF markName = "bold" THEN <<Star, Star>> ELSE <<Star>>

\* the delimiters that the transition e inserted: the closing and the opening
\* one of an input rule, whose closing delimiter ends at the caret, and of an
\* expand that inserts, around the range of the annotation
InsertedDelimiters(e) ==
    IF e.op = "inputRule"
    THEN {e.syntax, TextBetween(e.post, e.newPos - Len(e.syntax), e.newPos)}
    ELSE IF e.op = "expand" /\ e.path = "insert"
    THEN {TextBetween(e.post, e.range.from, e.range.from + Len(getRevealSyntax(e.markName))),
          TextBetween(e.post, e.range.to + Len(getRevealSyntax(e.markName)),
                      e.range.to + 2 * Len(getRevealSyntax(e.markName)))}
    ELSE {}

CanonicalInserted(r) ==
    \A k \in 1..Len(r.log) :
        \A text \in InsertedDelimiters(r.log[k]) : text = CanonicalMarker(r.log[k].markName)

\* C25: every delimiter string inserted by expand or by the typing input
\* rule is "**" for Bold and "*" for Italic, also when the user typed the
\* underscore variant of the emphasis.
C25_CanonicalMarkers ==
    ~isSourceMode =>
        /\ \A c \in SingleCharKeys : CanonicalInserted(TypeKey(Cur, c))
        /\ \A p \in Positions : CanonicalInserted(MouseSelect(Cur, p, p))

\* the underscore variant of Italic has been typed and its input rule has
\* inserted the underscore on both sides of the inner text
C25_Witness ==
    /\ hist.typed = <<Underscore, Letter, Underscore>>
    /\ activeInlineReveal.active
    /\ activeInlineReveal.markName = "italic"
    /\ SpanOf(Cur) = <<Underscore, Letter, Underscore>>


(* ============================== C26 ==================================== *)
\* the caret is collapsed in the structured view, a reveal is active, and a
\* marker character of the reveal stands at position at of its span
MarkerOfRevealAt(at) ==
    /\ ~isSourceMode
    /\ activeInlineReveal.active
    /\ selFrom = selTo
    /\ activeInlineReveal.start <= at
    /\ at < activeInlineReveal.end
    /\ TextBetween(doc, at, at + 1) = <<activeInlineReveal.syntax[1]>>

\* r deleted exactly the character at position at and left the caret there,
\* and neither a reconcile nor a collapse ran
OnlyDeleted(r, at) ==
    /\ TextOf(r.doc) = TextOf(DeleteRange(doc, at, at + 1))
    /\ r.from = at
    /\ r.to = at
    /\ \A k \in 1..Len(r.log) : r.log[k].op \notin {"reconcile", "collapse"}

\* C26: with an active reveal and a collapsed caret, Backspace with a marker
\* character immediately before the caret (Delete with one immediately after
\* it) deletes exactly that one character, leaves the caret at the deletion
\* point, and triggers neither a reconcile nor a collapse.
C26_MarkerKeyOnlyDeletes ==
    /\ MarkerOfRevealAt(selFrom - 1) => OnlyDeleted(BackspaceKey(Cur), selFrom - 1)
    /\ MarkerOfRevealAt(selFrom) => OnlyDeleted(DeleteKey(Cur), selFrom)

\* the closing marker of a Bold reveal is deleted with Backspace: the
\* character is deleted, the caret stays there, and a reconcile has run
C26_Witness ==
    /\ MarkerOfRevealAt(selFrom - 1)
    /\ activeInlineReveal.markName = "bold"
    /\ selFrom = activeInlineReveal.end
    /\ TextOf(BackspaceKey(Cur).doc) = TextOf(DeleteRange(doc, selFrom - 1, selFrom))
    /\ BackspaceKey(Cur).from = selFrom - 1
    /\ Reconciled(BackspaceKey(Cur))


(* ============================== C27 ==================================== *)
\* no reveal is active, the caret is collapsed in the structured view, and a
\* literal marker character stands at position at
LiteralMarkerAt(at) ==
    /\ ~isSourceMode
    /\ ~activeInlineReveal.active
    /\ selFrom = selTo
    /\ 1 <= at
    /\ at <= Len(doc)
    /\ doc[at].c \in MarkerChars

Expanded(r) == \E k \in 1..Len(r.log) : r.log[k].op = "expand"

\* C27: when the user deletes a literal marker character with Backspace or
\* Delete while no reveal is active, no expand occurs while the deletion and
\* its selection notification are handled, even if the caret then touches or
\* sits one position right of a Bold or Italic annotation.
C27_NoExpandOnMarkerDelete ==
    /\ LiteralMarkerAt(selFrom - 1) => ~Expanded(BackspaceKey(Cur))
    /\ LiteralMarkerAt(selFrom) => ~Expanded(DeleteKey(Cur))

\* a literal marker is deleted with Backspace or Delete, the caret then
\* touches an annotation, and the handling of the deletion has expanded it
C27_Witness ==
    \/ /\ LiteralMarkerAt(selFrom - 1)
       /\ TextOf(BackspaceKey(Cur).doc) = TextOf(DeleteRange(doc, selFrom - 1, selFrom))
       /\ Expanded(BackspaceKey(Cur))
       /\ BackspaceKey(Cur).air.active
    \/ /\ LiteralMarkerAt(selFrom)
       /\ TextOf(DeleteKey(Cur).doc) # TextOf(doc)
       /\ Expanded(DeleteKey(Cur))
       /\ DeleteKey(Cur).air.active


(* ============================== C28 ==================================== *)
\* a character next to the caret carries the annotation m
TouchesMark(m) == HasMark(doc, selFrom, m) \/ HasMark(doc, selFrom - 1, m)

CandidateAround(c) ==
    /\ selFrom = selTo
    /\ c.markName \in {"bold", "italic"}
    /\ TouchesMark("bold") => c.markName = "bold"
    /\ c.range.from <= selFrom
    /\ selFrom <= c.range.to
    /\ \A k \in c.range.from..(c.range.to - 1) : HasMark(doc, k, c.markName)

\* C28: findRevealCandidate returns a candidate only for a collapsed
\* selection, only of kind Bold or Italic (Bold first when both apply), and
\* the range returned satisfies range.start <= caret <= range.end, also when
\* it was found by the retry one offset to the left.
C28_CandidateAroundCaret ==
    findRevealCandidate(Cur).found => CandidateAround(findRevealCandidate(Cur))

\* a candidate is returned at the right edge of a run that is both Bold and
\* Italic, left of a character without annotation: it is the Bold one
C28_Witness ==
    /\ findRevealCandidate(Cur).found
    /\ findRevealCandidate(Cur).markName = "bold"
    /\ HasMark(doc, selFrom - 1, "italic")
    /\ selFrom = findRevealCandidate(Cur).range.to
    /\ selFrom <= Len(doc)
    /\ ~HasMark(doc, selFrom, "bold")


(* ============================== C29 ==================================== *)
\* the canonical marker stands immediately before and immediately after the
\* range of the expand e in the document it found
Surrounded(e) ==
    /\ TextBetween(e.pre, e.range.from - Len(CanonicalMarker(e.markName)), e.range.from)
           = CanonicalMarker(e.markName)
    /\ TextBetween(e.pre, e.range.to, e.range.to + Len(CanonicalMarker(e.markName)))
           = CanonicalMarker(e.markName)

LastExpand(r) == r.log[Len(r.log)]

EndsWithExpand(r) == Len(r.log) > 0 /\ LastExpand(r).op = "expand"


\* the reveal that the expand e leaves when nothing follows it in r: over the
\* markers that stood there, with the document and the caret as they were
OnlyInstantiated(r, e, len) ==
    /\ e.post = e.pre
    /\ e.newPos = e.oldPos
    /\ r.doc = e.pre
    /\ r.from = e.oldPos
    /\ r.to = e.oldPos
    /\ r.air.active
    /\ r.air.markName = e.markName
    /\ r.air.start = e.range.from - len
    /\ r.air.end = e.range.to + len
    /\ SpanOf(r) = CanonicalMarker(e.markName) \o TextBetween(e.pre, e.range.from, e.range.to)
                       \o CanonicalMarker(e.markName)

\* the expand e has put one marker before and one after the range
InsertedOnce(e, syntax) ==
    TextOf(e.post) = TextBetween(e.pre, 1, e.range.from) \o syntax
                         \o TextBetween(e.pre, e.range.from, e.range.to) \o syntax
                         \o TextBetween(e.pre, e.range.to, Len(e.pre) + 1)

\* the marker stands twice on both sides of the inner text at [from, to)
Duplicated(d, from, to, syntax) ==
    /\ TextBetween(d, from - 2 * Len(syntax), from) = syntax \o syntax
    /\ TextBetween(d, to, to + 2 * Len(syntax)) = syntax \o syntax

IdempotentOnDelimiters(r) ==
    \A k \in 1..Len(r.log) :
        r.log[k].op = "expand" =>
            IF Surrounded(r.log[k])
            THEN /\ r.log[k].post = r.log[k].pre
                 /\ k = Len(r.log) =>
                        OnlyInstantiated(r, r.log[k], Len(CanonicalMarker(r.log[k].markName)))
            ELSE /\ InsertedOnce(r.log[k], CanonicalMarker(r.log[k].markName))
                 /\ ~Duplicated(r.log[k].post,
                                r.log[k].range.from + Len(CanonicalMarker(r.log[k].markName)),
                                r.log[k].range.to + Len(CanonicalMarker(r.log[k].markName)),
                                CanonicalMarker(r.log[k].markName))

ClickedIntoSurrounded(r) ==
    /\ EndsWithExpand(r)
    /\ Len(r.log) = 1
    /\ Surrounded(LastExpand(r))
    /\ r.air.active
    /\ TextOf(r.doc) = TextOf(doc)

LastTransition(r, k) == \A j \in Transitions(r) : j <= k

\* the caret of r stands collapsed at pos
CaretAt(r, pos) == r.from = pos /\ r.to = pos

\* the inserting expand e found the caret at the right edge of its range: the
\* caret ends after the closing marker, at the end of the revealed span
PlacedAfterClosing(r, e, len, last) ==
    /\ e.newPos = e.range.to + 2 * len
    /\ TextBetween(e.post, e.newPos - len, e.newPos) = CanonicalMarker(e.markName)
    /\ last => (CaretAt(r, e.newPos) /\ r.air.active /\ r.from = r.air.end)

\* the inserting expand e found the caret at p inside its range: the caret
\* ends at p plus the left marker length, before the same character
PlacedInside(r, e, len, last) ==
    /\ e.newPos = e.oldPos + len
    /\ e.post[e.newPos].c = e.pre[e.oldPos].c
    /\ last => (CaretAt(r, e.newPos) /\ r.air.active /\ r.from = r.air.start + len + (e.oldPos - e.range.from))

CaretPlacedOnExpand(r) ==
    \A k \in 1..Len(r.log) :
        (r.log[k].op = "expand" /\ r.log[k].path = "insert") =>
            /\ r.log[k].oldPos = r.log[k].range.to =>
                   PlacedAfterClosing(r, r.log[k], Len(CanonicalMarker(r.log[k].markName)),
                                      LastTransition(r, k))
            /\ (r.log[k].range.from <= r.log[k].oldPos /\ r.log[k].oldPos < r.log[k].range.to) =>
                   PlacedInside(r, r.log[k], Len(CanonicalMarker(r.log[k].markName)),
                                LastTransition(r, k))

\* C30: caret placement on expand: a caret exactly at range.end ends
\* immediately after the inserted closing marker, the end of the revealed
\* span; a caret at p with range.start <= p < range.end ends at p plus the
\* left marker length, at the same place relative to the inner text.
C30_CaretOnExpand == EveryEvent(CaretPlacedOnExpand)

\* a click at position p has expanded by inserting, the caret being at the
\* right edge of the range (atEnd) or inside it
ExpandedByClick(p, atEnd) ==
    /\ Len(MouseSelect(Cur, p, p).log) = 1
    /\ MouseSelect(Cur, p, p).log[1].op = "expand"
    /\ MouseSelect(Cur, p, p).log[1].path = "insert"
    /\ MouseSelect(Cur, p, p).log[1].oldPos = p
    /\ atEnd = (p = MouseSelect(Cur, p, p).log[1].range.to)
    /\ MouseSelect(Cur, p, p).log[1].range.from <= p
    /\ MouseSelect(Cur, p, p).from = (IF atEnd THEN MouseSelect(Cur, p, p).air.end
                                      ELSE p + Len(MouseSelect(Cur, p, p).air.syntax))

C30_Witness ==
    /\ ~isSourceMode
    /\ \E p \in Positions : ExpandedByClick(p, TRUE)
    /\ \E p \in Positions : ExpandedByClick(p, FALSE)


(* ============================== C31 ==================================== *)
\* the length of the text that the collapse e put back in place of the
\* absorbed span [revealStart, revealEnd)
ReinsertedLen(e) == Len(e.post) - (Len(e.pre) - (e.revealEnd - e.revealStart))

\* the caret of the collapse e, by where it stood
CollapseCaretPlaced(e) ==
    /\ e.oldPos > e.revealEnd =>
           /\ Len(e.post) - e.newPos = Len(e.pre) - e.oldPos
           /\ e.newPos = e.oldPos + ReinsertedLen(e) - (e.revealEnd - e.revealStart)
           /\ TextBetween(e.post, e.newPos, Len(e.post) + 1)
                  = TextBetween(e.pre, e.oldPos, Len(e.pre) + 1)
    /\ e.oldPos < e.revealStart => e.newPos = e.oldPos
    /\ (e.revealStart <= e.oldPos /\ e.oldPos <= e.revealEnd) =>
           (e.revealStart <= e.newPos /\ e.newPos <= e.revealStart + ReinsertedLen(e))
    /\ 1 <= e.newPos
    /\ e.newPos <= Len(e.post) + 1

CaretPlacedOnCollapse(r) ==
    \A k \in 1..Len(r.log) :
        r.log[k].op = "collapse" =>
            /\ CollapseCaretPlaced(r.log[k])
            /\ LastTransition(r, k) => CaretAt(r, r.log[k].newPos)

\* C31: caret placement on collapse: a caret right of the absorbed span
\* keeps its distance to the text that follows it, a caret left of the span
\* is unchanged, a caret inside the span ends within the re-inserted text
\* [spanStart, spanStart + insertedLength]; the resulting selection is a
\* collapsed caret inside the document.
C31_CaretOnCollapse == EveryEvent(CaretPlacedOnCollapse)

\* a click at p right of (left of) the revealed span has collapsed it
CollapsedByClick(p, right) ==
    /\ Len(MouseSelect(Cur, p, p).log) = 1
    /\ MouseSelect(Cur, p, p).log[1].op = "collapse"
    /\ MouseSelect(Cur, p, p).log[1].oldPos = p
    /\ MouseSelect(Cur, p, p).log[1].parsed.type # "none"
    /\ IF right THEN p > MouseSelect(Cur, p, p).log[1].revealEnd
       ELSE p < MouseSelect(Cur, p, p).log[1].revealStart
    /\ MouseSelect(Cur, p, p).from = MouseSelect(Cur, p, p).log[1].newPos
    /\ right => MouseSelect(Cur, p, p).from < p

\* a key has collapsed the span with the caret inside it
CollapsedInside(r) ==
    \E k \in 1..Len(r.log) :
        /\ r.log[k].op = "collapse"
        /\ r.log[k].revealStart < r.log[k].oldPos
        /\ r.log[k].oldPos <= r.log[k].revealEnd

C31_Witness ==
    /\ ~isSourceMode
    /\ activeInlineReveal.active
    /\ \E p \in Positions : CollapsedByClick(p, TRUE)
    /\ \E p \in Positions : CollapsedByClick(p, FALSE)
    /\ SomeEvent(CollapsedInside)


(* ============================== C32 ==================================== *)
\* the key of length n from the end of before ends at offset q of text
KeyEndsAt(before, text, n, q) ==
    /\ n <= q
    /\ q <= Len(text)
    /\ SubSeq(text, q - n + 1, q) = Suffix(before, n)

KeyOccurs(before, text, n) == \E q \in n..Len(text) : KeyEndsAt(before, text, n, q)

\* q is the end of the occurrence, nearest to approx and leftmost of the
\* nearest, of the longest key of 3 to min(30, length) characters from the
\* end of before that occurs in text
LongestKeyNearestEnd(before, text, approx, q) ==
    \E n \in 3..Min(30, Len(before)) :
        /\ KeyEndsAt(before, text, n, q)
        /\ \A m \in (n + 1)..Min(30, Len(before)) : ~KeyOccurs(before, text, m)
        /\ \A q2 \in n..Len(text) :
               KeyEndsAt(before, text, n, q2) =>
                   \/ AbsDiff(q, approx) < AbsDiff(q2, approx)
                   \/ AbsDiff(q, approx) = AbsDiff(q2, approx) /\ q <= q2

\* the position of the structured view after q characters of its paragraph
PositionAfter(q) == q + 1

\* the position that the switch to the structured view computes for the
\* source caret p
StructuredPosOf(p) ==
    structuredCaretIn(sourceValue, p,
                      setContent(EnterSourceMode(Cur), markdownToDoc(sourceValue)).doc)

\* C32: position mapping tries key lengths from min(30, length of the text
\* before the caret) down to 3, stops at the first length whose key occurs
\* in the target text, and returns the end of the occurrence whose end is
\* closest to the proportional estimate of the caret, the leftmost on a tie.
C32_LongestKeyNearestEnd ==
    /\ ~isSourceMode =>
           \A p \in 1..(Len(DocToSerialize) + 1) :
               KeyFoundInSource(p) =>
                   LongestKeyNearestEnd(TextBetween(DocToSerialize, 0, p),
                                        htmlToMarkdown(DocToSerialize),
                                        RoundRatio(p, Max(1, ContentSize(DocToSerialize)),
                                                   Len(htmlToMarkdown(DocToSerialize))),
                                        SourceCaretOf(p))
    /\ (isSourceMode /\ DelimitersApart(sourceValue)) =>
           \A p \in 0..Len(sourceValue) :
               KeyFoundInStructured(p) =>
                   \E q \in 0..Len(TextAfterSetContent) :
                       /\ StructuredPosOf(p) = PositionAfter(q)
                       /\ LongestKeyNearestEnd(stripDelimiters(SubSeq(sourceValue, 1, p), 1),
                                               TextAfterSetContent,
                                               RoundRatio(p, Max(1, Len(sourceValue)),
                                                          Len(TextAfterSetContent)),
                                               q)

\* in the source view the whole text stands before the caret and is its key:
\* the position computed for the structured view is one left of the end of
\* the paragraph, where the key ends
C32_Witness ==
    /\ isSourceMode
    /\ DelimitersApart(sourceValue)
    /\ sourceSelStart = Len(sourceValue)
    /\ Len(TextAfterSetContent) >= 3
    /\ stripDelimiters(sourceValue, 1) = TextAfterSetContent
    /\ StructuredPosOf(sourceSelStart) = Len(TextAfterSetContent)


(* ============================== C33 ==================================== *)
\* the positions at which the query stands in the text of the paragraph,
\* ignoring case and annotations
TextOccurrences(d, query) ==
    {x + 1 : x \in Occurrences(LowerText(TextOf(d)), LowerText(query))}

MatchStarts(matches) == {matches[k].from : k \in 1..Len(matches)}

\* C33: search in the structured view is annotation-agnostic: findAllMatches
\* finds every occurrence of the query in the text of a paragraph wherever
\* the boundaries of Bold and Italic or the delimiters of an active reveal
\* fall, occurrences that span an annotation boundary included.
C33_AnnotationAgnostic ==
    ~isSourceMode =>
        \A query \in Queries :
            MatchStarts(findAllMatches(doc, query)) = TextOccurrences(doc, query)

\* a search in the structured view has found nothing although the query
\* stands in the text, across an annotation boundary
C33_Witness ==
    /\ ~isSourceMode
    /\ searchInput \in Queries
    /\ hist.marksView = "structured"
    /\ searchMarks = <<>>
    /\ findAllMatches(doc, searchInput) = <<>>
    /\ TextOccurrences(doc, searchInput) # {}


(* ============================== C34 ==================================== *)
\* doReplace acts: lines 1673-1674 let it pass
ReplaceEnabled == searchInput # <<>> /\ searchMarks # <<>> /\ searchIndex >= 0

\* the text that doReplace replaces: that of the current range in the view
\* shown
TextToReplace ==
    IF isSourceMode
    THEN Substring(sourceValue, searchMarks[searchIndex + 1].from, searchMarks[searchIndex + 1].to)
    ELSE TextBetween(doc, searchMarks[searchIndex + 1].from, searchMarks[searchIndex + 1].to)

\* C34: doReplace only ever replaces a range whose current text equals the
\* query ignoring case, also when the document was edited, by the user or by
\* an expand or a collapse, between the search and the replace.
C34_ReplacesOnlyMatches ==
    ReplaceEnabled => LowerText(TextToReplace) = LowerText(searchInput)

\* in the view in which the ranges were computed, the current range no
\* longer holds the query: doReplace replaces another text
C34_Witness ==
    /\ ReplaceEnabled
    /\ hist.marksView = ViewNow(isSourceMode)
    /\ edits < MaxSearchOps
    /\ LowerText(TextToReplace) # LowerText(searchInput)


(* ============================== C35 ==================================== *)
\* window.__getMarkdown (lines 903-908)
getMarkdown(s, source) == IF s.isSourceMode THEN source ELSE htmlToMarkdown(s.doc)

NotSaved == [saved |-> FALSE, content |-> <<>>, revealed |-> FALSE]

\* saveFile of the main process (src/src/index.js lines 386-398) asks the
\* window for its Markdown and writes it; hist keeps what was written and
\* whether a reveal was active in the structured view then. A behaviour is
\* followed up to its first save.
SaveFile ==
    /\ hist = NotSaved
    /\ UNCHANGED <<mainProcess, files, aiChat>>
    /\ hist' = [saved |-> TRUE, content |-> getMarkdown(Cur, sourceValue),
                revealed |-> ~isSourceMode /\ activeInlineReveal.active]
    /\ UNCHANGED <<revealVars, outsideReveal, edits>>

InitSaving ==
    /\ InitEditor(InitDocs)
    /\ edits = Len(doc)
    /\ hist = NotSaved

NextSaving ==
    \/ hist = NotSaved /\ Next
    \/ SaveFile

SpecSaving == InitSaving /\ [][NextSaving]_vars

\* C35: whenever the structured document is serialized to Markdown, on the
\* switch to the source view and on save through window.__getMarkdown, no
\* reveal is active, so the serialized text never contains the literal
\* delimiters of a revealed span in addition to its emphasis.
C35_NoRevealWhenSerialized ==
    [][/\ ToggleSourceMode =>
              (~activeInlineReveal'.active /\ sourceValue' = htmlToMarkdown(doc'))
       /\ (SaveFile /\ ~isSourceMode) =>
              (~activeInlineReveal.active /\ hist'.content = htmlToMarkdown(doc))]_vars

\* the document was saved from the structured view while a reveal was
\* active: the text written holds the delimiters of the revealed span as
\* literal characters beside its emphasis
C35_Witness ==
    /\ hist.saved
    /\ hist.revealed
    /\ ~isSourceMode
    /\ activeInlineReveal.active
    /\ hist.content = htmlToMarkdown(doc)
    /\ hist.content # htmlToMarkdown(collapseInlineReveal(Cur).doc)


(* ============================== C36 ==================================== *)
\* the caret of r is collapsed inside the active reveal of r
CaretInsideReveal(r) ==
    /\ r.air.active
    /\ r.from = r.to
    /\ r.air.start <= r.from
    /\ r.from <= r.air.end

\* the handling r ends with an expand or an input rule, and then the caret
\* is inside the reveal just created
InsideNewReveal(r) ==
    \A k \in 1..Len(r.log) :
        (r.log[k].op \in {"expand", "inputRule"} /\ LastTransition(r, k)) =>
            CaretInsideReveal(r) /\ r.from = r.log[k].newPos

\* C36: immediately after any expand, one resolved by
\* findRevealCandidateRightOutside included, and after the typing input rule,
\* the caret is a collapsed selection with start <= caret <= end of the
\* newly created reveal.
C36_CaretInsideNewReveal == EveryEvent(InsideNewReveal)

\* a deletion has left the caret one position right of an annotation, the
\* expand of that candidate has inserted the markers, and the caret stands
\* right of the end of the reveal
ExpandedRightOutside(r) ==
    /\ Len(r.log) > 0
    /\ LastTransition(r, Len(r.log))
    /\ r.log[Len(r.log)].op = "expand"
    /\ r.log[Len(r.log)].path = "insert"
    /\ r.log[Len(r.log)].oldPos = r.log[Len(r.log)].range.to + 1
    /\ r.air.active
    /\ r.from = r.air.end + 1

C36_Witness == ~isSourceMode /\ SomeEvent(ExpandedRightOutside)


(* ======================= file operations (main) ======================= *)
\* src/src/index.js.  m is [main, files, ed]: the variables of the main
\* process, the files on disk and the state of the editor in the window.
\* The answers of the dialogs and the outcome of a write are inputs: response
\* is the button of the "unsaved changes" box (0 Save, 1 Don't Save, 2
\* Cancel), chosen the path of the save dialog (NoFilePath: cancelled), ok
\* whether fs.writeFileSync succeeds, target the path of the open dialog.
Paths == {"a.md", "b.md"}
NoFile == [exists |-> FALSE, content |-> <<>>]
File(content) == [exists |-> TRUE, content |-> content]

MainNow == [main |-> mainProcess, files |-> files, ed |-> Cur]

\* the body of saveFile once currentFilePath is set (lines 389-397)
writeCurrent(m, ok) ==
    IF ok
    THEN [m EXCEPT !.files[m.main.currentFilePath] = File(getMarkdown(m.ed, <<>>)),
                   !.main.isModified = FALSE]
    ELSE m

\* saveFileAs (lines 400-413)
saveFileAs(m, chosen, ok) ==
    IF chosen = NoFilePath THEN m
    ELSE writeCurrent([m EXCEPT !.main.currentFilePath = chosen], ok)

\* saveFile (lines 386-398)
saveFile(m, chosen, ok) ==
    IF m.main.currentFilePath = NoFilePath THEN saveFileAs(m, chosen, ok)
    ELSE writeCurrent(m, ok)

\* "if (isModified && !isWelcomeDoc)" (lines 328, 348)
asksBeforeDiscard(m) == m.main.isModified /\ ~m.main.isWelcomeDoc

\* the 'file-new' handler of the window (part_000 lines 1401-1407), the
\* window being in the structured view
onFileNew(s) == setContent(s, <<>>)

\* the 'file-opened' handler of the window (part_000 lines 1409-1421)
onFileOpened(s, content) == setTextSelection(setContent(s, markdownToDoc(content)), 1)

\* newFile from line 339 on
resetToNew(m) ==
    [m EXCEPT !.main = [currentFilePath |-> NoFilePath, isModified |-> FALSE,
                        isWelcomeDoc |-> FALSE],
              !.ed = onFileNew(m.ed)]

\* newFile (lines 327-345)
newFile(m, response, chosen, ok) ==
    IF asksBeforeDiscard(m)
    THEN IF response = 2 THEN m
         ELSE resetToNew(IF response = 0 THEN saveFile(m, chosen, ok) ELSE m)
    ELSE resetToNew(m)

\* openFile from the open dialog on (lines 358-384)
readTarget(m, target) ==
    IF target = NoFilePath \/ ~m.files[target].exists THEN m
    ELSE [m EXCEPT !.main = [currentFilePath |-> target, isModified |-> FALSE,
                             isWelcomeDoc |-> FALSE],
                   !.ed = onFileOpened(m.ed, m.files[target].content)]

\* openFile (lines 347-384)
openFile(m, response, chosen, ok, target) ==
    IF asksBeforeDiscard(m)
    THEN IF response = 2 THEN m
         ELSE readTarget(IF response = 0 THEN saveFile(m, chosen, ok) ELSE m, target)
    ELSE readTarget(m, target)

\* ipcMain.on('content-modified') (lines 458-464)
contentModified(main) ==
    IF main.isWelcomeDoc THEN main
    ELSE [main EXCEPT !.isModified = TRUE]

InstallMain(m) ==
    /\ mainProcess' = m.main
    /\ files' = m.files
    /\ InstallReveal(m.ed)
    /\ UNCHANGED <<outsideReveal, hist, aiChat>>

Responses == 0..2
Chosen == Paths \cup {NoFilePath}

NewFile ==
    /\ \E response \in Responses, chosen \in Chosen, ok \in BOOLEAN :
           InstallMain(newFile(MainNow, response, chosen, ok))
    /\ UNCHANGED edits

OpenFile ==
    /\ \E response \in Responses, chosen \in Chosen, ok \in BOOLEAN, target \in Chosen :
           InstallMain(openFile(MainNow, response, chosen, ok, target))
    /\ UNCHANGED edits

Save ==
    /\ \E chosen \in Chosen, ok \in BOOLEAN : InstallMain(saveFile(MainNow, chosen, ok))
    /\ UNCHANGED edits

\* a key typed in the window: onUpdate notifies the main process (part_000
\* lines 888-891)
MaxFileEdits == 2

EditContent ==
    /\ edits < MaxFileEdits
    /\ edits' = edits + 1
    /\ InstallReveal(TypeKey(Cur, Letter))
    /\ mainProcess' = contentModified(mainProcess)
    /\ UNCHANGED <<outsideReveal, hist, files, aiChat>>

\* the window after did-finish-load (lines 262-308): an empty untitled
\* document, the welcome document, or the last file restored
WelcomeText == <<Letter>>

InitFiles ==
    /\ doc \in {<<>>, markdownToDoc(WelcomeText)}
    /\ selFrom = 1
    /\ selTo = 1
    /\ activeInlineReveal = NoReveal
    /\ syncingInlineReveal = FALSE
    /\ inlineRevealJustExpanded = FALSE
    /\ inlineRevealLastKeyEvent = NoKeyEvent
    /\ inlineRevealSuppressNextSelectionExpand = FALSE
    /\ isSourceMode = FALSE
    /\ wysiwygComposing = FALSE
    /\ sourceValue = <<>>
    /\ sourceSelStart = 0
    /\ sourceSelEnd = 0
    /\ searchInput = <<>>
    /\ searchMarks = <<>>
    /\ searchIndex = -1
    /\ edits = 0
    /\ hist = <<>>
    /\ aiChat = ChatStart
    /\ \/ /\ mainProcess = [MainStart EXCEPT !.isWelcomeDoc = (doc # <<>>)]
          /\ files = [p \in Paths |-> NoFile]
       \/ /\ doc # <<>>
          /\ \E p \in Paths :
                 /\ mainProcess = [MainStart EXCEPT !.currentFilePath = p]
                 /\ files = [q \in Paths |-> IF q = p THEN File(htmlToMarkdown(doc)) ELSE NoFile]

NextFiles ==
    \/ NewFile
    \/ OpenFile
    \/ Save
    \/ EditContent

SpecFiles == InitFiles /\ [][NextFiles]_vars


(* ============================== C37 ==================================== *)
\* the save that the box's Save button starts writes the file: a path is
\* there or chosen, and the write succeeds
SaveWrites(chosen, ok) ==
    ok /\ (mainProcess.currentFilePath # NoFilePath \/ chosen # NoFilePath)

\* the current document, the file path and the modified flag are those of
\* the current state
KeptAsIs(r) ==
    /\ r.ed.doc = doc
    /\ r.main.currentFilePath = mainProcess.currentFilePath
    /\ r.main.isModified = mainProcess.isModified

\* the modifications are kept when the user cancels, and when the user
\* chooses Save and the file is not written
KeptUnlessSavedOrDiscarded(response, chosen, ok, r) ==
    /\ response = 2 => KeptAsIs(r)
    /\ (response = 0 /\ ~SaveWrites(chosen, ok)) => KeptAsIs(r)

\* C37: newFile and openFile discard the current unsaved modifications only
\* if the user chose "Don't Save" or the save actually wrote the file; if
\* the user chose Save and the save dialog is cancelled or the write fails,
\* the current document, file path and modified flag are left unchanged, and
\* choosing Cancel always leaves them unchanged.
C37_KeepsUnsavedOnFailedSave ==
    (mainProcess.isModified /\ ~mainProcess.isWelcomeDoc) =>
        \A response \in Responses, chosen \in Chosen, ok \in BOOLEAN :
            /\ KeptUnlessSavedOrDiscarded(response, chosen, ok,
                                          newFile(MainNow, response, chosen, ok))
            /\ \A target \in Chosen :
                   KeptUnlessSavedOrDiscarded(response, chosen, ok,
                                              openFile(MainNow, response, chosen, ok, target))

\* an untitled modified document: the user chooses Save in the box of
\* newFile and cancels the save dialog, and the document is gone
C37_Witness ==
    /\ mainProcess.isModified
    /\ ~mainProcess.isWelcomeDoc
    /\ mainProcess.currentFilePath = NoFilePath
    /\ doc # <<>>
    /\ newFile(MainNow, 0, NoFilePath, TRUE).ed.doc = <<>>
    /\ ~newFile(MainNow, 0, NoFilePath, TRUE).main.isModified
    /\ newFile(MainNow, 0, NoFilePath, TRUE).files = files
    /\ KeptAsIs(newFile(MainNow, 2, NoFilePath, TRUE))

(* ============================== C38 ==================================== *)
\* C38: once the current document has a file path, the first
\* content-modified notification after any save sets isModified, so that
\* newFile and openFile then ask before discarding; also when the saved
\* document started as the welcome document.
C38_ModifiedAfterSave ==
    [][(EditContent /\ mainProcess.currentFilePath # NoFilePath)
           => (mainProcess'.isModified /\ asksBeforeDiscard(MainNow'))]_vars

\* the welcome document was saved to a file and then edited: it has a path,
\* differs from the file, and is not marked modified
C38_Witness ==
    /\ mainProcess.currentFilePath # NoFilePath
    /\ mainProcess.isWelcomeDoc
    /\ ~mainProcess.isModified
    /\ files[mainProcess.currentFilePath].exists
    /\ files[mainProcess.currentFilePath].content # htmlToMarkdown(doc)
    /\ newFile(MainNow, 2, NoFilePath, TRUE).ed.doc = <<>>


(* ============================ AI streams =============================== *)
\* part_000 lines 2024-2050 and 2141-2190, src/src/preload.js lines 32-34,
\* src/src/index.js lines 586-618.  aiChat.stream[j] is the j-th stream
\* started: its kind ("chat" or "action"), the bubble created for it, the
\* number of chunks sent and its status; the chunks of stream j carry the
\* text j.  aiChat.responseText[j] is the variable responseText (resultText)
\* of the call that started stream j.  aiChat.listeners are the callbacks
\* registered with ipcRenderer.on, in the order of registration: preload.js
\* only ever adds listeners.
MaxStreams == 2
MaxChunks == 2

Listener(channel, kind, owner) == [channel |-> channel, kind |-> kind, owner |-> owner]

StreamListeners(kind, owner) ==
    <<Listener("chunk", kind, owner), Listener("done", kind, owner),
      Listener("error", kind, owner)>>

\* cleanup of handleAIAction (lines 2035-2039): three more listeners that do
\* nothing
cleanup(c) == [c EXCEPT !.listeners = @ \o StreamListeners("noop", 0)]

\* sendChatMessage (lines 2141-2190) with a configured provider
sendChatMessage(c, text) ==
    [chatMessages |-> Append(c.chatMessages, [role |-> "user", content |-> text]),
     bubbles |-> c.bubbles \o <<text, <<>>>>,
     listeners |-> c.listeners \o StreamListeners("chat", Len(c.stream) + 1),
     responseText |-> Append(c.responseText, <<>>),
     stream |-> Append(c.stream, [kind |-> "chat", bubble |-> Len(c.bubbles) + 2, sent |-> 0,
                                  status |-> "running"])]

\* handleAIAction (lines 2024-2050): its result is shown in its own
\* container, not in a bubble
handleAIAction(c) ==
    [c EXCEPT !.listeners = @ \o StreamListeners("action", Len(c.stream) + 1),
              !.responseText = Append(@, <<>>),
              !.stream = Append(@, [kind |-> "action", bubble |-> 0, sent |-> 0,
                                    status |-> "running"])]

\* one callback l called with the payload of a message of its channel
callListener(c, l, payload) ==
    IF l.kind = "chat"
    THEN IF l.channel = "chunk"
         THEN [c EXCEPT !.responseText[l.owner] = Append(@, payload),
                        !.bubbles[c.stream[l.owner].bubble] =
                            Append(c.responseText[l.owner], payload)]
         ELSE IF l.channel = "done"
         THEN [c EXCEPT !.chatMessages =
                            Append(@, [role |-> "assistant",
                                       content |-> c.responseText[l.owner]])]
         ELSE [c EXCEPT !.bubbles[c.stream[l.owner].bubble] = <<"error">>]
    ELSE IF l.kind = "action"
    THEN IF l.channel = "chunk"
         THEN [c EXCEPT !.responseText[l.owner] = Append(@, payload)]
         ELSE cleanup(c)
    ELSE c

\* a message of the channel arrives in the window: the listeners registered
\* when it arrives are called in the order of their registration, from the
\* k-th of them on
RECURSIVE emitFrom(_, _, _, _, _)
emitFrom(c, all, k, channel, payload) ==
    IF k > Len(all) THEN c
    ELSE emitFrom(IF all[k].channel = channel THEN callListener(c, all[k], payload) ELSE c,
                  all, k + 1, channel, payload)

emit(c, channel, payload) == emitFrom(c, c.listeners, 1, channel, payload)

\* onChunk of ai-stream-start (index.js lines 602-605)
streamChunk(c, j) == emit([c EXCEPT !.stream[j].sent = @ + 1], "chunk", j)

\* the end of callAI (lines 608-609) and its failure (lines 611-614)
streamDone(c, j) == emit([c EXCEPT !.stream[j].status = "done"], "done", j)
streamError(c, j) == emit([c EXCEPT !.stream[j].status = "failed"], "error", j)

ChatUnchanged ==
    UNCHANGED <<revealVars, outsideReveal, edits, hist, mainProcess, files>>

SendChatMessage ==
    /\ Len(aiChat.stream) < MaxStreams
    /\ aiChat' = sendChatMessage(aiChat, <<"q">>)
    /\ ChatUnchanged

HandleAIAction ==
    /\ Len(aiChat.stream) < MaxStreams
    /\ aiChat' = handleAIAction(aiChat)
    /\ ChatUnchanged

StreamChunk(j) ==
    /\ aiChat.stream[j].status = "running"
    /\ aiChat.stream[j].sent < MaxChunks
    /\ aiChat' = streamChunk(aiChat, j)
    /\ ChatUnchanged

StreamDone(j) ==
    /\ aiChat.stream[j].status = "running"
    /\ aiChat' = streamDone(aiChat, j)
    /\ ChatUnchanged

StreamError(j) ==
    /\ aiChat.stream[j].status = "running"
    /\ aiChat' = streamError(aiChat, j)
    /\ ChatUnchanged

InitChat ==
    /\ InitEditor({<<>>})
    /\ edits = 0
    /\ hist = <<>>

NextChat ==
    \/ SendChatMessage
    \/ HandleAIAction
    \/ \E j \in 1..Len(aiChat.stream) : StreamChunk(j)
    \/ \E j \in 1..Len(aiChat.stream) : StreamDone(j)
    \/ \E j \in 1..Len(aiChat.stream) : StreamError(j)

SpecChat == InitChat /\ [][NextChat]_vars


(* ------------------------------- C39 ----------------------------------- *)
ChatStreams(c) == {j \in 1..Len(c.stream) : c.stream[j].kind = "chat"}
CompletedReplies(c) == {j \in ChatStreams(c) : c.stream[j].status = "done"}
AssistantMessages(c) ==
    {n \in 1..Len(c.chatMessages) : c.chatMessages[n].role = "assistant"}

\* the text streamed so far for the reply of stream j
Streamed(c, j) == Rep(j, c.stream[j].sent)

\* C39: in a chat session every completed reply is in the chat history
\* exactly once (the history holds one assistant message for each completed
\* reply, and the text of each completed reply is the content of one of
\* them), and every chunk updates only the bubble of the reply it belongs to
\* (the bubble of a reply that has not failed shows the chunks of its own
\* stream and nothing else), for the first message and for every later one.
C39_RepliesOnceOwnBubble ==
    /\ Cardinality(AssistantMessages(aiChat)) = Cardinality(CompletedReplies(aiChat))
    /\ \A j \in CompletedReplies(aiChat) :
           \E n \in AssistantMessages(aiChat) :
               aiChat.chatMessages[n].content = Streamed(aiChat, j)
    /\ \A j \in ChatStreams(aiChat) :
           aiChat.stream[j].status # "failed"
               => aiChat.bubbles[aiChat.stream[j].bubble] = Streamed(aiChat, j)

\* the reply to a second message has completed after the reply to the first
\* one, and both received a chunk
C39_Witness ==
    /\ Cardinality(CompletedReplies(aiChat)) = 2
    /\ \A j \in CompletedReplies(aiChat) : aiChat.stream[j].sent > 0
    /\ Len(aiChat.chatMessages) > 3


(* ------------------------------- C40 ----------------------------------- *)
\* searchIndex is -1 exactly when there is no match, and the index of a match
\* otherwise
SearchIndexConsistent ==
    IF searchMarks = <<>> THEN searchIndex = -1
    ELSE searchIndex \in 0..(Len(searchMarks) - 1)

\* next after the last match is the first one, previous before the first
\* match is the last one, and every other navigation moves by one
NavigationWraps ==
    \A step \in {-1, 1} :
        NavigateSearchResult(step)
            => searchIndex' = IF searchIndex + step > Len(searchMarks) - 1 THEN 0
                              ELSE IF searchIndex + step < 0 THEN Len(searchMarks) - 1
                              ELSE searchIndex + step

\* a search, a replace and a replace-all leave the index at the first match
\* of the new search, or at -1 when it has none
SearchResetsIndex ==
    (\/ \E query \in Queries : DoSearch(query)
     \/ \E replacement \in Replacements : DoReplace(replacement)
     \/ \E replacement \in Replacements : DoReplaceAll(replacement))
        => searchIndex' = IF searchMarks' = <<>> THEN -1 ELSE 0

\* C40: in every reachable state of the search bar searchIndex is -1 exactly
\* when searchMarks is empty and otherwise 0 <= searchIndex < number of
\* matches; next and previous navigation wrap around at both ends; a search,
\* a replace and a replace-all reset the index to the first match or to -1.
C40_SearchIndexInRange ==
    /\ SearchIndexConsistent
    /\ [][SearchIndexConsistent' /\ NavigationWraps /\ SearchResetsIndex]_vars

\* a search with at least three matches followed by one step back: the index
\* has wrapped from the first match to the last one
C40_Witness ==
    /\ Len(searchMarks) >= 3
    /\ searchIndex = Len(searchMarks) - 1
    /\ edits = 2

====
